---- MODULE Spec2Model ----
(***************************************************************************)
(* A model of the rust-chess engine: the transposition table              *)
(* (src/src/transposition.rs), the search worker                           *)
(* (src/src/search/handler.rs) and the engine controller                   *)
(* (src/src/engine.rs).                                                    *)
(*                                                                         *)
(* A u64 is modelled as the set of the positions of its 1 bits (a subset   *)
(* of 0..63): `|` is union, `&` is intersection, and the shifts move the   *)
(* positions, dropping what leaves the word.                               *)
(***************************************************************************)
EXTENDS Integers, Sequences, FiniteSets, TLC

VARIABLES
    \* transposition table (transposition.rs)
    table,      \* Box<[Mutex<TTEntry>]>: slot -> [hash, value]
    poisoned,   \* slot -> whether the slot's Mutex is poisoned
    ttArgs,     \* the argument tuples the TT client calls set with
    ttLast,     \* the TT client's last call and what it returned
    ttWriter,   \* history: slot -> the set call that wrote it last
    \* concurrent clients of the table
    lock,       \* slot -> the thread holding the slot's Mutex, 0 when free
    thr,        \* thread -> its call in progress and what its last get returned
    \* engine controller (engine.rs)
    cpc,        \* where the controller thread is
    quit,       \* Engine.quit
    board,      \* Engine.board: Option<Board>
    moves,      \* Engine.moves
    positions,  \* Engine.positions
    search_sig, \* Engine.search_sig, the AtomicBool every request shares
    cmdq,       \* channel of SearchCommand, controller to worker
    respq,      \* channel of SearchResponse, worker to controller
    out,        \* the lines the controller's latest step wrote to stdout
    err,        \* the lines the controller's latest step wrote to stderr
    \* search worker (search/handler.rs)
    wpc,        \* where the worker thread is
    wreq,       \* the request being searched
    wd,         \* search_iterative: d
    wres,       \* search_iterative: res
    wtasks,     \* the root tasks of the running fan-out, in move order
    timeup,     \* whether the deadline of the request being searched has passed
    \* history
    taken,      \* the response the controller's latest step took, if any
    owed,       \* requests the worker received and has not answered
    seen,       \* what the worker was doing when quit was handled
    mark,       \* depth published when the flag was last set during this search
    \* search (search/context.rs, search/alpha_beta.rs)
    cx,         \* a SearchContext moves are applied to
    nm,         \* a nega_max call: its arguments, history and result
    hist        \* a MoveHistory: its array, the lengths of its handles

ttVars == <<table, poisoned, ttArgs, ttLast, ttWriter>>

concVars == <<lock, thr>>

ctrlVars ==
    <<cpc, quit, board, moves, positions, search_sig, out, err, taken>>

workerVars == <<wpc, wreq, wd, wres, wtasks, timeup, owed>>

engineVars ==
    <<cpc, quit, board, moves, positions, search_sig, cmdq, respq, out, err,
      wpc, wreq, wd, wres, wtasks, timeup, taken, owed, seen, mark>>

searchVars == <<cx, nm, hist>>

vars ==
    <<table, poisoned, ttArgs, ttLast, ttWriter, lock, thr,
      cpc, quit, board, moves, positions, search_sig, cmdq, respq, out, err,
      wpc, wreq, wd, wres, wtasks, timeup, taken, owed, seen, mark,
      cx, nm, hist>>

(***************************************************************************)
(* Machine words                                                           *)
(***************************************************************************)
WordBits == 0..63

Pow2(i) == 2 ^ i

\* the u64 whose value is the natural n (n < 2^16)
FromNat(n) == {i \in 0..15 : (n \div Pow2(i)) % 2 = 1}

\* the value of a u64 with no bit above 15 set
ToNat(w) ==
    LET b(i) == IF i \in w THEN Pow2(i) ELSE 0
    IN b(0) + b(1) + b(2) + b(3) + b(4) + b(5) + b(6) + b(7)
       + b(8) + b(9) + b(10) + b(11) + b(12) + b(13) + b(14) + b(15)

Shl(w, k) == {i + k : i \in {j \in w : j + k <= 63}}

Shr(w, k) == {i - k : i \in {j \in w : j >= k}}

BitOr(a, b) == a \cup b

BitAnd(a, b) == a \cap b

\* `x as u64` for x: i16: two's complement, sign-extended to 64 bits
I16AsU64(x) ==
    IF x < 0 THEN FromNat(x + 65536) \cup (16..63) ELSE FromNat(x)

\* `x as i16` for x: u64: the low 16 bits, read as two's complement
U64AsI16(w) ==
    LET u == ToNat(BitAnd(w, 0..15))
    IN IF u >= 32768 THEN u - 65536 ELSE u

\* `x as u8` for x: u64: the low 8 bits
U64AsU8(w) == ToNat(BitAnd(w, 0..7))

(***************************************************************************)
(* transposition.rs: the packed entry                                      *)
(***************************************************************************)
PROMOTION_MASK == 0..3

DESTINATION_MASK == 4..11

ORIGIN_MASK == 12..19

SCORE_MASK == 20..35

DEPTH_MASK == 36..43

TYPE_MASK == 44..47

PROMOTION_SHIFT == 0

DESTINATION_SHIFT == 4

ORIGIN_SHIFT == 12

SCORE_SHIFT == 20

DEPTH_SHIFT == 36

TYPE_SHIFT == 44

NodeTypes == {"Exact", "LowerBound", "UpperBound"}

\* NodeType::to_byte: `*self as u8`, the variant's index
to_byte(t) ==
    CASE t = "Exact" -> 0
      [] t = "LowerBound" -> 1
      [] t = "UpperBound" -> 2

\* impl From<u64> for NodeType; "panic" stands for panic!("Invalid node type")
NodeType_from(byte) ==
    CASE byte = 0 -> "Exact"
      [] byte = 1 -> "LowerBound"
      [] byte = 2 -> "UpperBound"
      [] OTHER -> "panic"

\* chess::ChessMove: source and destination square (0..63), promotion piece
ChessMove(orig, dest, promotion) ==
    [source |-> orig, dest |-> dest, promotion |-> promotion]

\* ChessMove::default(): a1a1 without promotion
ChessMove_default == ChessMove(0, 0, "None")

\* TTData::make_piece
make_piece(p) ==
    CASE p = 1 -> "Knight"
      [] p = 2 -> "Bishop"
      [] p = 3 -> "Rook"
      [] p = 4 -> "Queen"
      [] OTHER -> "None"

\* pack_move
pack_move(m, score, depth, t) ==
    LET promotion == CASE m.promotion = "Knight" -> 1
                       [] m.promotion = "Bishop" -> 2
                       [] m.promotion = "Rook" -> 3
                       [] m.promotion = "Queen" -> 4
                       [] OTHER -> 6
        dest == FromNat(m.dest)
        orig == FromNat(m.source)
        score64 == I16AsU64(score)
        depth64 == FromNat(depth)
    IN BitOr(BitOr(BitOr(BitOr(BitOr(
           Shl(FromNat(promotion), PROMOTION_SHIFT),
           Shl(dest, DESTINATION_SHIFT)),
           Shl(orig, ORIGIN_SHIFT)),
           Shl(score64, SCORE_SHIFT)),
           Shl(depth64, DEPTH_SHIFT)),
           Shl(FromNat(to_byte(t)), TYPE_SHIFT))

\* impl From<u64> for TTData; panic is TRUE when make_square's assert or the
\* node type conversion panics
TTData_from(packed) ==
    LET depth == Shr(BitAnd(packed, DEPTH_MASK), DEPTH_SHIFT)
        score == Shr(BitAnd(packed, SCORE_MASK), SCORE_SHIFT)
        dest == ToNat(Shr(BitAnd(packed, DESTINATION_MASK), DESTINATION_SHIFT))
        orig == ToNat(Shr(BitAnd(packed, ORIGIN_MASK), ORIGIN_SHIFT))
        promotion == make_piece(ToNat(Shr(BitAnd(packed, PROMOTION_MASK), PROMOTION_SHIFT)))
        node_type == NodeType_from(ToNat(Shr(BitAnd(packed, TYPE_MASK), TYPE_SHIFT)))
    IN IF dest >= 64 \/ orig >= 64 \/ node_type = "panic"
       THEN [panic |-> TRUE]
       ELSE [panic |-> FALSE,
             depth |-> U64AsU8(depth),
             score |-> U64AsI16(score),
             m |-> ChessMove(orig, dest, promotion),
             node_type |-> node_type]

(***************************************************************************)
(* transposition.rs: the table                                             *)
(***************************************************************************)
\* log2 of the number of slots (the engine builds TT::new(1 << 10))
TTBits == 1

TTSize == Pow2(TTBits)

\* TT.mask = size - 1
TT_mask == FromNat(TTSize - 1)

\* (hash as usize) & self.mask
TT_index(hash) == ToNat(BitAnd(hash, TT_mask))

\* TTEntry::default()
TTEntry_default == [hash |-> {}, value |-> {}]

\* TT::new(size)
TT_new == [i \in 0..(TTSize - 1) |-> TTEntry_default]

\* the bound kind TT::set derives
set_node_type(score, original_alpha, beta) ==
    IF score <= original_alpha THEN "UpperBound"
    ELSE IF score >= beta THEN "LowerBound"
    ELSE "Exact"

\* TT::set: the table after the call
TT_set(tbl, hash, depth, score, m, original_alpha, beta) ==
    LET node_type == set_node_type(score, original_alpha, beta)
    IN [tbl EXCEPT ![TT_index(hash)] =
            [hash |-> hash, value |-> pack_move(m, score, depth, node_type)]]

None == [kind |-> "None"]

Some(x) == [kind |-> "Some", data |-> x]

Panic == [kind |-> "Panic"]

\* TT::get: None, Some(TTData), or Panic when decoding the entry panics
TT_get(tbl, hash) ==
    LET entry == tbl[TT_index(hash)]
    IN IF entry.hash = hash
       THEN (IF TTData_from(entry.value).panic THEN Panic
             ELSE Some(TTData_from(entry.value)))
       ELSE None

(***************************************************************************)
(* The engine: a controller thread (engine.rs) and a search worker thread  *)
(* (search/handler.rs) joined by two unbounded channels.  The chess crate  *)
(* is a library: its positions are abstracted to three boards, its moves   *)
(* to small numbers, and a root search to the score it returns.            *)
(***************************************************************************)
\* a position whose side to move has no legal move
MatedBoard == 0

\* Board::default()
StartBoard == 1

\* a position one move before MatedBoard
MidBoard == 2

\* a position two moves before MatedBoard
FarBoard == 3

\* a quiet position without legal moves whose side to move is not in check
StaleBoard == 4

\* two positions that lead to each other
LoopBoard == 5

BackBoard == 6

\* a position reached from ForkBoard by one move and, over the four Way
\* boards, by five
MeetBoard == 7

Way1Board == 8

\* the two quiet positions MeetBoard leads to
Quiet1Board == 9

Way2Board == 10

Quiet2Board == 11

Way3Board == 12

ForkBoard == 13

Way4Board == 14

\* MoveGen::new_legal(board), in generation order
new_legal(b) ==
    CASE b = StartBoard -> <<1, 2>>
      [] b = MidBoard -> <<1>>
      [] b = FarBoard -> <<1>>
      [] b = MatedBoard -> <<>>
      [] b = StaleBoard -> <<>>
      [] b \in {LoopBoard, BackBoard} -> <<1, 2>>
      [] b \in {ForkBoard, Way1Board, MeetBoard} -> <<1, 2>>
      [] b \in {Way2Board, Way3Board, Way4Board} -> <<1>>
      [] b \in {Quiet1Board, Quiet2Board} -> <<1>>

\* board.make_move_new(m)
make_move_new(b, m) ==
    CASE b = StartBoard -> MidBoard
      [] b = MidBoard -> MatedBoard
      [] b = FarBoard -> MidBoard
      [] b = LoopBoard -> IF m = 1 THEN BackBoard ELSE MidBoard
      [] b = BackBoard -> IF m = 1 THEN LoopBoard ELSE StaleBoard
      [] b = ForkBoard -> IF m = 1 THEN Way1Board ELSE MeetBoard
      [] b = Way1Board -> IF m = 1 THEN Way2Board ELSE MatedBoard
      [] b = Way2Board -> Way3Board
      [] b = Way3Board -> Way4Board
      [] b = Way4Board -> MeetBoard
      [] b = MeetBoard -> IF m = 1 THEN Quiet1Board ELSE Quiet2Board
      [] b = Quiet1Board -> StaleBoard
      [] b = Quiet2Board -> MidBoard

\* board.get_hash()
get_hash(b) == b + 8

\* Board::from_str(fen): None for a string that is no FEN
Board_from_str(fen) ==
    CASE fen = "far" -> Some(FarBoard)
      [] OTHER -> None

\* the position commands read: fen (None is startpos) and moves
PositionInputs ==
    {[fen |-> None, moves |-> <<>>],
     [fen |-> Some("far"), moves |-> <<1, 1>>],
     [fen |-> Some("garbage"), moves |-> <<1>>]}

\* the go commands read: depth and movetime are Options, infinite a bool
GoDepths == {None, Some(3)}

GoMovetimes == {None, Some(100)}

\* SearchControl
Depth(d) == [kind |-> "Depth", depth |-> d]

Time == [kind |-> "Time", depth |-> 0]

Infinite == [kind |-> "Infinite", depth |-> 0]

\* TryFrom<UciCommand> for SearchControl, for a Go command
SearchControl_try_from(depth, movetime, infinite) ==
    IF infinite THEN Some(Infinite)
    ELSE IF depth.kind = "Some" THEN Some(Depth(depth.data))
    ELSE IF movetime.kind = "Some" THEN Some(Time)
    ELSE None

\* SearchRequest::new; tt and signal are the shared table and search_sig
SearchRequest(ctrl, b, position_history) ==
    [ctrl |-> ctrl, board |-> b, position_history |-> position_history]

NoRequest == SearchRequest([kind |-> "None", depth |-> 0], MatedBoard, <<>>)

\* SearchCommand
Search(req) == [cmd |-> "Search", req |-> req]

Quit == [cmd |-> "Quit", req |-> NoRequest]

\* SearchResponse, with its history: the kind of the request it answers and
\* the root moves whose search was cut short in the fan-out that produced it
SearchResponse(nodes, depth, best_move, all_moves) ==
    [nodes |-> nodes, depth |-> depth, best_move |-> best_move,
     all_moves |-> all_moves]

SearchResponse_default == SearchResponse(0, 0, None, <<>>)

Answer(msg, kind, cut) == [msg |-> msg, ctrl |-> kind, cut |-> cut]

NoAnswer == Answer(SearchResponse_default, "None", {})

\* MoveScore::new(m, NegaMaxResult::new(score, nodes))
MoveScore(m, score, nodes) == [m |-> m, score |-> score, nodes |-> nodes]

\* the iterations search_iterative runs are d in 1..depth with depth =
\* u8::MAX; IterLimit stands for u8::MAX
IterLimit == 3

\* requests dispatched whose response the controller has not taken
MaxInFlight == 2

\* a root task of a fan-out: running, or done with its MoveScore
TaskRunning == [st |-> "run", score |-> 0, nodes |-> 0, cut |-> FALSE]

TaskDone(score, nodes, cut) ==
    [st |-> "done", score |-> score, nodes |-> nodes, cut |-> cut]

\* Engine::new() and Search::init(): no board, empty channels, flag false,
\* the worker waiting for its first command
EngineIdle ==
    /\ cpc = "loop"
    /\ quit = FALSE
    /\ board = None
    /\ moves = <<>>
    /\ positions = <<>>
    /\ search_sig = FALSE
    /\ cmdq = <<>>
    /\ respq = <<>>
    /\ out = <<>>
    /\ err = <<>>
    /\ wpc = "recv"
    /\ wreq = NoRequest
    /\ wd = 0
    /\ wres = Answer(SearchResponse_default, "None", {})
    /\ wtasks = <<>>
    /\ timeup = FALSE
    /\ taken = NoAnswer
    /\ owed = 0
    /\ seen = "none"
    /\ mark = None
    /\ cx = None
    /\ nm = None
    /\ hist = None

(***************************************************************************)
(* A single-threaded client of the table: set and get calls in any order,  *)
(* with arguments drawn in TTInit.                                         *)
(***************************************************************************)
\* u64 values used as hashes: 0, 1 and all-ones
TTHashes == {{}, FromNat(1), WordBits}

TTDepths == {0, 1, 255}

TTScores == {-32768, -1, 0, 32767}

TTMoves ==
    {ChessMove_default, ChessMove(52, 60, "Queen"), ChessMove(63, 7, "Knight")}

\* <<original_alpha, beta>>
TTWindows == {<<-32641, 32641>>, <<0, 1>>, <<-1, 0>>}

SetArgs(depth, score, m, w) ==
    [depth |-> depth, score |-> score, m |-> m,
     original_alpha |-> w[1], beta |-> w[2]]

TTArgSet ==
    {SetArgs(d, s, m, w) : d \in TTDepths, s \in TTScores, m \in TTMoves,
                           w \in TTWindows}

\* the arguments of a second, different set call
TTArgs2 == SetArgs(3, 7, ChessMove(55, 63, "Rook"), <<7, 9>>)

\* what a get is meant to return for a set call with arguments a
DataOf(a) ==
    [panic |-> FALSE, depth |-> a.depth, score |-> a.score, m |-> a.m,
     node_type |-> set_node_type(a.score, a.original_alpha, a.beta)]

\* history: a slot nobody wrote, and a slot written by set(hash, ttArgs[arg])
\* over an entry holding the hash `over`
Fresh == [written |-> FALSE]

Written(h, k, old) == [written |-> TRUE, hash |-> h, arg |-> k, over |-> old]

\* the writer of the entry a set call replaces
Replaced(w) == IF w.written THEN [written |-> TRUE, hash |-> w.hash] ELSE Fresh

NumThreads == 2

Threads == 1..NumThreads

Slots == 0..(TTSize - 1)

ThreadIdle == [pc |-> "idle", op |-> "none", hash |-> {}, arg |-> 0,
               res |-> None, src |-> Fresh]

ConcIdle ==
    /\ lock = [i \in Slots |-> 0]
    /\ thr = [t \in Threads |-> ThreadIdle]

TTIdle ==
    /\ table = TT_new
    /\ poisoned = [i \in 0..(TTSize - 1) |-> FALSE]
    /\ ttLast = [op |-> "none", hash |-> {}, arg |-> 0, res |-> None]
    /\ ttWriter = [i \in 0..(TTSize - 1) |-> Fresh]

TTInit ==
    /\ TTIdle
    /\ ConcIdle
    /\ EngineIdle
    /\ ttArgs \in {<<a, TTArgs2>> : a \in TTArgSet}

\* a client thread that panicked has unwound: it makes no further call
ClientAlive == ttLast.res.kind # "Panic"

\* tt.set(h, depth, score, m, original_alpha, beta) with the k-th arguments
ClientSet(h, k) ==
    /\ ClientAlive
    /\ table' = TT_set(table, h, ttArgs[k].depth, ttArgs[k].score, ttArgs[k].m,
                       ttArgs[k].original_alpha, ttArgs[k].beta)
    /\ ttLast' = [op |-> "set", hash |-> h, arg |-> k, res |-> None]
    /\ ttWriter' = [ttWriter EXCEPT ![TT_index(h)] = Written(h, k, Replaced(@))]
    /\ UNCHANGED <<poisoned, ttArgs>>
    /\ UNCHANGED <<concVars, engineVars, searchVars>>

\* tt.get(h); a panic while the guard is held poisons the slot's Mutex.
\* ttLast.arg records the call before: k when it was set(h, ttArgs[k]), else 0
ClientGet(h) ==
    /\ ClientAlive
    /\ ttLast' = [op |-> "get", hash |-> h,
                  arg |-> IF ttLast.op = "set" /\ ttLast.hash = h
                          THEN ttLast.arg ELSE 0,
                  res |-> TT_get(table, h)]
    /\ poisoned' = [poisoned EXCEPT ![TT_index(h)] =
                        @ \/ TT_get(table, h).kind = "Panic"]
    /\ UNCHANGED <<table, ttArgs, ttWriter>>
    /\ UNCHANGED <<concVars, engineVars, searchVars>>

TTNext ==
    \/ \E h \in TTHashes, k \in 1..2 : ClientSet(h, k)
    \/ \E h \in TTHashes : ClientGet(h)

SpecTT == TTInit /\ [][TTNext]_vars

(***************************************************************************)
(* Several threads calling get and set on the shared table.  A call locks  *)
(* its slot's Mutex, works on the entry and drops the guard on return (or  *)
(* while unwinding from a panic, which poisons the Mutex).                 *)
(***************************************************************************)
ConcArgSet ==
    {SetArgs(1, 5, ChessMove(52, 60, "Queen"), <<0, 9>>),
     SetArgs(2, -5, ChessMove(12, 28, "None"), <<-9, 0>>)}

ConcInit ==
    /\ TTIdle
    /\ ConcIdle
    /\ EngineIdle
    /\ ttArgs \in {<<a, TTArgs2>> : a \in ConcArgSet}

\* a thread enters tt.get(h) (k = 0) or tt.set(h, ttArgs[k]...)
Call(t, op, h, k) ==
    /\ thr[t].pc = "idle"
    /\ thr' = [thr EXCEPT ![t] = [pc |-> "lock", op |-> op, hash |-> h,
                                   arg |-> k, res |-> None, src |-> Fresh]]
    /\ UNCHANGED <<lock, ttVars, engineVars, searchVars>>

\* entry.lock().expect(..): blocks while the Mutex is held, panics when it
\* is poisoned
Lock(t) ==
    /\ thr[t].pc = "lock"
    /\ lock[TT_index(thr[t].hash)] = 0
    /\ IF poisoned[TT_index(thr[t].hash)]
       THEN /\ thr' = [thr EXCEPT ![t].pc = "dead"]
            /\ UNCHANGED lock
       ELSE /\ thr' = [thr EXCEPT ![t].pc = "in"]
            /\ lock' = [lock EXCEPT ![TT_index(thr[t].hash)] = t]
    /\ UNCHANGED <<ttVars, engineVars, searchVars>>

\* TT::get under the guard: compare the hash, decode, return
GetBody(t) ==
    /\ thr[t].pc = "in"
    /\ thr[t].op = "get"
    /\ LET i == TT_index(thr[t].hash)
           r == TT_get(table, thr[t].hash)
       IN /\ thr' = [thr EXCEPT ![t].pc = IF r.kind = "Panic" THEN "dead" ELSE "idle",
                                 ![t].res = r,
                                 ![t].src = ttWriter[i]]
          /\ poisoned' = [poisoned EXCEPT ![i] = @ \/ r.kind = "Panic"]
          /\ lock' = [lock EXCEPT ![i] = 0]
    /\ UNCHANGED <<table, ttArgs, ttLast, ttWriter, engineVars, searchVars>>

\* TT::set under the guard: entry.hash = hash
SetHash(t) ==
    /\ thr[t].pc = "in"
    /\ thr[t].op = "set"
    /\ table' = [table EXCEPT ![TT_index(thr[t].hash)].hash = thr[t].hash]
    /\ thr' = [thr EXCEPT ![t].pc = "value"]
    /\ UNCHANGED <<poisoned, ttArgs, ttLast, ttWriter, lock, engineVars, searchVars>>

\* TT::set under the guard: entry.value = pack_move(..), then return
SetValue(t) ==
    /\ thr[t].pc = "value"
    /\ LET i == TT_index(thr[t].hash)
           a == ttArgs[thr[t].arg]
       IN /\ table' = [table EXCEPT ![i].value =
                 pack_move(a.m, a.score, a.depth,
                           set_node_type(a.score, a.original_alpha, a.beta))]
          /\ ttWriter' = [ttWriter EXCEPT ![i] =
                 Written(thr[t].hash, thr[t].arg, Replaced(@))]
          /\ lock' = [lock EXCEPT ![i] = 0]
    /\ thr' = [thr EXCEPT ![t] = ThreadIdle]
    /\ UNCHANGED <<poisoned, ttArgs, ttLast, engineVars, searchVars>>

ConcNext ==
    \/ \E t \in Threads, h \in TTHashes : Call(t, "get", h, 0)
    \/ \E t \in Threads, h \in TTHashes, k \in 1..2 : Call(t, "set", h, k)
    \/ \E t \in Threads : Lock(t)
    \/ \E t \in Threads : GetBody(t)
    \/ \E t \in Threads : SetHash(t)
    \/ \E t \in Threads : SetValue(t)

SpecTTConc == ConcInit /\ [][ConcNext]_vars

(***************************************************************************)
(* The search worker: Search::init's thread and the searches it runs       *)
(***************************************************************************)
\* whether the worker is inside Search::search
Searching == wpc \in {"depth", "iter"}

\* the worker thread has returned from its closure or unwound from a panic;
\* either way its ends of the two channels are dropped
WorkerDead == wpc \in {"exited", "panicked"}

\* the Search commands waiting in the command channel
Queued == {i \in 1..Len(cmdq) : cmdq[i].cmd = "Search"}

\* requests dispatched whose response the controller has not taken yet
InFlight ==
    Cardinality(Queued) + (IF Searching THEN 1 ELSE 0) + Len(respq)

\* what the worker side is doing, as recorded when quit is handled
Activity ==
    IF Searching THEN wreq.ctrl.kind
    ELSE IF Queued # {} THEN "Queued"
    ELSE IF respq # <<>> THEN "Answered"
    ELSE IF WorkerDead THEN "Dead"
    ELSE "Idle"

\* util::task_must_stop(time, signal): the deadline, if any, has passed or
\* the flag is set
task_must_stop(has_timeout) == (has_timeout /\ timeup) \/ search_sig

\* the score and node count search_core(request, m, timeout, depth) returns
\* when nega_max runs to completion: fixed by the position and the depth
CoreScore(b, m, depth) == ((m * depth) % 3) - 1

CoreNodes(b, m, depth) == depth + 1

\* the score a root search returns when nega_max left its move loop early
\* at alpha_beta.rs:119-121: the maximum over the children seen so far
CutScores == {1}

\* the par_iter fan-out over the legal moves of the root: one task per move
FanOut(b) == [i \in 1..Len(new_legal(b)) |-> TaskRunning]

AllDone == \A i \in DOMAIN wtasks : wtasks[i].st = "done"

\* collect(): the MoveScores in move order
Collected ==
    [i \in DOMAIN wtasks |->
        MoveScore(new_legal(wreq.board)[i], wtasks[i].score, wtasks[i].nodes)]

\* the root moves of the fan-out whose search was cut short
CutMoves == {new_legal(wreq.board)[i] : i \in {j \in DOMAIN wtasks : wtasks[j].cut}}

\* all_moves.iter().map(|m| m.info.nodes).sum()
RECURSIVE SumNodes(_)
SumNodes(all_moves) ==
    IF all_moves = <<>> THEN 0
    ELSE Head(all_moves).nodes + SumNodes(Tail(all_moves))

\* a selection that keeps the first of the entries with the maximal score:
\* what C22's tie rule rules out
max_by_key_first(all_moves) ==
    IF all_moves = <<>> THEN None
    ELSE LET i == CHOOSE i \in 1..Len(all_moves) :
                      \A j \in 1..Len(all_moves) :
                          /\ all_moves[j].score <= all_moves[i].score
                          /\ (j < i => all_moves[j].score < all_moves[i].score)
         IN Some(all_moves[i].m)

\* all_moves.iter().max_by_key(|m| m.info.score).map(|m| m.m): the last of
\* the entries with the maximal score, None for an empty list
max_by_key(all_moves) ==
    IF all_moves = <<>> THEN None
    ELSE LET i == CHOOSE i \in 1..Len(all_moves) :
                      \A j \in 1..Len(all_moves) :
                          /\ all_moves[j].score <= all_moves[i].score
                          /\ (j > i => all_moves[j].score < all_moves[i].score)
         IN Some(all_moves[i].m)

\* the worker's locals once Search::search has returned
WorkerRest ==
    /\ wreq' = NoRequest
    /\ wd' = 0
    /\ wres' = NoAnswer
    /\ wtasks' = <<>>
    /\ timeup' = FALSE

\* tx.send(response) at the end of Search::search, back to recv
Send(answer) ==
    /\ respq' = Append(respq, answer)
    /\ owed' = owed - 1
    /\ wpc' = "recv"
    /\ mark' = None
    /\ WorkerRest

\* a worker that takes SearchCommand::Quit off the channel and stays in its
\* loop: what C6 rules out
WorkerQuit_stays ==
    /\ wpc = "recv"
    /\ cmdq # <<>>
    /\ Head(cmdq).cmd = "Quit"
    /\ cmdq' = Tail(cmdq)
    /\ UNCHANGED <<wpc, wreq, wd, wres, wtasks, timeup, owed, respq, seen, mark>>
    /\ UNCHANGED <<ctrlVars, ttVars, concVars, searchVars>>

\* the worker's loop receives SearchCommand::Quit and leaves the loop
WorkerQuit ==
    /\ wpc = "recv"
    /\ cmdq # <<>>
    /\ Head(cmdq).cmd = "Quit"
    /\ cmdq' = Tail(cmdq)
    /\ wpc' = "exited"
    /\ UNCHANGED <<wreq, wd, wres, wtasks, timeup, owed, respq, seen, mark>>
    /\ UNCHANGED <<ctrlVars, ttVars, concVars, searchVars>>

\* the worker's loop receives SearchCommand::Search and enters
\* Search::search: search_depth for Depth(d), else search_iterative with its
\* first fan-out at d = 1
WorkerSearch ==
    /\ wpc = "recv"
    /\ cmdq # <<>>
    /\ Head(cmdq).cmd = "Search"
    /\ cmdq' = Tail(cmdq)
    /\ wreq' = Head(cmdq).req
    /\ owed' = owed + 1
    /\ wtasks' = FanOut(Head(cmdq).req.board)
    /\ wres' = Answer(SearchResponse_default, Head(cmdq).req.ctrl.kind, {})
    /\ timeup' = FALSE
    /\ IF Head(cmdq).req.ctrl.kind = "Depth"
       THEN wpc' = "depth" /\ wd' = Head(cmdq).req.ctrl.depth
       ELSE wpc' = "iter" /\ wd' = 1
    /\ mark' = None
    /\ UNCHANGED <<respq, seen>>
    /\ UNCHANGED <<ctrlVars, ttVars, concVars, searchVars>>

\* Instant::now() reaches the deadline of the Time request being searched
DeadlinePasses ==
    /\ wpc = "iter"
    /\ wreq.ctrl.kind = "Time"
    /\ ~timeup
    /\ timeup' = TRUE
    /\ UNCHANGED <<wpc, wreq, wd, wres, wtasks, owed, cmdq, respq, seen, mark>>
    /\ UNCHANGED <<ctrlVars, ttVars, concVars, searchVars>>

\* search_core for the i-th root move: nega_max runs to completion
search_core(i) ==
    /\ Searching
    /\ i \in DOMAIN wtasks
    /\ wtasks[i].st = "run"
    /\ wtasks' = [wtasks EXCEPT ![i] =
           TaskDone(CoreScore(wreq.board, new_legal(wreq.board)[i], wd),
                    CoreNodes(wreq.board, new_legal(wreq.board)[i], wd), FALSE)]
    /\ UNCHANGED <<wpc, wreq, wd, wres, timeup, owed, cmdq, respq, seen, mark>>
    /\ UNCHANGED <<ctrlVars, ttVars, concVars, searchVars>>

\* search_core for the i-th root move: a nega_max frame polls
\* task_must_stop, finds it true and returns its partial maximum
search_core_cut(i, score) ==
    /\ Searching
    /\ i \in DOMAIN wtasks
    /\ wtasks[i].st = "run"
    /\ task_must_stop(wreq.ctrl.kind = "Time")
    /\ wtasks' = [wtasks EXCEPT ![i] = TaskDone(score, 0, TRUE)]
    /\ UNCHANGED <<wpc, wreq, wd, wres, timeup, owed, cmdq, respq, seen, mark>>
    /\ UNCHANGED <<ctrlVars, ttVars, concVars, searchVars>>

\* search_depth: the fan-out is collected, the response is built and sent
search_depth ==
    /\ wpc = "depth"
    /\ AllDone
    /\ Send(Answer(SearchResponse(SumNodes(Collected), wd,
                                  max_by_key(Collected), Collected),
                   "Depth", CutMoves))
    /\ UNCHANGED <<cmdq, seen>>
    /\ UNCHANGED <<ctrlVars, ttVars, concVars, searchVars>>

\* search_iterative, handler.rs:250-252: after the fan-out task_must_stop
\* is true, so res, the result of the iteration before, is returned and sent
search_iterative_stop ==
    /\ wpc = "iter"
    /\ AllDone
    /\ task_must_stop(wreq.ctrl.kind = "Time")
    /\ Send(wres)
    /\ UNCHANGED <<cmdq, seen>>
    /\ UNCHANGED <<ctrlVars, ttVars, concVars, searchVars>>

\* search_iterative, handler.rs:253-258: task_must_stop is false and the
\* root has no legal move, so best_move.unwrap() panics and the thread dies
search_iterative_panic ==
    /\ wpc = "iter"
    /\ AllDone
    /\ ~task_must_stop(wreq.ctrl.kind = "Time")
    /\ max_by_key(Collected) = None
    /\ wpc' = "panicked"
    /\ UNCHANGED <<wreq, wd, wres, wtasks, timeup, owed, cmdq, respq, seen, mark>>
    /\ UNCHANGED <<ctrlVars, ttVars, concVars, searchVars>>

\* search_iterative, handler.rs:259-264 and the next turn of the loop:
\* res becomes the result of this fan-out and the next depth is fanned out
search_iterative_next ==
    /\ wpc = "iter"
    /\ AllDone
    /\ ~task_must_stop(wreq.ctrl.kind = "Time")
    /\ max_by_key(Collected) # None
    /\ wd + 1 < IterLimit
    /\ wres' = Answer(SearchResponse(SumNodes(Collected), wd,
                                     max_by_key(Collected), Collected),
                      wreq.ctrl.kind, CutMoves)
    /\ wd' = wd + 1
    /\ wtasks' = FanOut(wreq.board)
    /\ UNCHANGED <<wpc, wreq, timeup, owed, cmdq, respq, seen, mark>>
    /\ UNCHANGED <<ctrlVars, ttVars, concVars, searchVars>>

\* search_iterative, handler.rs:259-267: the last depth of the range; res
\* becomes the result of this fan-out and is returned and sent
search_iterative_last ==
    /\ wpc = "iter"
    /\ AllDone
    /\ ~task_must_stop(wreq.ctrl.kind = "Time")
    /\ max_by_key(Collected) # None
    /\ wd + 1 >= IterLimit
    /\ Send(Answer(SearchResponse(SumNodes(Collected), wd,
                                  max_by_key(Collected), Collected),
                   wreq.ctrl.kind, CutMoves))
    /\ UNCHANGED <<cmdq, seen>>
    /\ UNCHANGED <<ctrlVars, ttVars, concVars, searchVars>>

WorkerNext ==
    \/ WorkerQuit
    \/ WorkerSearch
    \/ DeadlinePasses
    \/ \E i \in 1..2 : search_core(i)
    \/ \E i \in 1..2, score \in CutScores : search_core_cut(i, score)
    \/ search_depth
    \/ search_iterative_stop
    \/ search_iterative_panic
    \/ search_iterative_next
    \/ search_iterative_last

(***************************************************************************)
(* The controller: Engine::run and the handlers it calls                   *)
(***************************************************************************)
\* Engine::print_search_response: the lines it prints
print_search_response(msg) ==
    IF msg.best_move.kind = "Some"
    THEN LET bm == msg.best_move.data
             i == CHOOSE i \in 1..Len(msg.all_moves) :
                      /\ msg.all_moves[i].m = bm
                      /\ \A j \in 1..(i - 1) : msg.all_moves[j].m # bm
         IN <<[line |-> "info", depth |-> msg.depth, nodes |-> msg.nodes,
               score |-> msg.all_moves[i].score],
              [line |-> "bestmove", m |-> bm]>>
    ELSE <<>>

\* the board and the hashes handle_position's loop over the moves produces
RECURSIVE BoardAfter(_, _)
BoardAfter(b, mvs) ==
    IF mvs = <<>> THEN b
    ELSE BoardAfter(make_move_new(b, Head(mvs)), Tail(mvs))

RECURSIVE HashesAfter(_, _)
HashesAfter(b, mvs) ==
    IF mvs = <<>> THEN <<>>
    ELSE <<get_hash(make_move_new(b, Head(mvs)))>>
             \o HashesAfter(make_move_new(b, Head(mvs)), Tail(mvs))

\* Engine::build_search_cmd
build_search_cmd(ctrl) ==
    Search(SearchRequest(ctrl, board.data, positions))

\* run: the select takes a SearchResponse and prints it
RunResponse ==
    /\ cpc = "loop"
    /\ respq # <<>>
    /\ respq' = Tail(respq)
    /\ taken' = Head(respq)
    /\ out' = print_search_response(Head(respq).msg)
    /\ err' = <<>>
    /\ UNCHANGED <<cpc, quit, board, moves, positions, search_sig, cmdq, seen, mark>>
    /\ UNCHANGED <<workerVars, ttVars, concVars, searchVars>>

\* run: the response channel is empty and disconnected (the worker
\* panicked), recv gives Err and the loop breaks
RunDisconnected ==
    /\ cpc = "loop"
    /\ respq = <<>>
    /\ wpc = "panicked"
    /\ cpc' = "quit"
    /\ out' = <<>> /\ err' = <<"Error: RecvError">> /\ taken' = NoAnswer
    /\ UNCHANGED <<quit, board, moves, positions, search_sig>>
    /\ UNCHANGED <<cmdq, respq, seen, mark, workerVars, ttVars, concVars, searchVars>>

\* handle_uci_command(UciCommand::Quit): quit = true, the loop ends
handle_quit ==
    /\ cpc = "loop"
    /\ quit' = TRUE
    /\ cpc' = "quit"
    /\ seen' = Activity
    /\ UNCHANGED mark
    /\ out' = <<>> /\ err' = <<>> /\ taken' = NoAnswer
    /\ UNCHANGED <<board, moves, positions, search_sig>>
    /\ UNCHANGED <<cmdq, respq, workerVars, ttVars, concVars, searchVars>>

\* a handle_position that pushes onto the old hash history instead of
\* replacing it: what C19 rules out
handle_position_extends(fen, mvs) ==
    /\ cpc = "loop"
    /\ LET b == IF fen.kind = "Some" THEN Board_from_str(fen.data)
                ELSE Some(StartBoard)
       IN IF b.kind = "None"
          THEN /\ err' = <<"Error: InvalidFen">>
               /\ UNCHANGED <<board, moves, positions>>
          ELSE /\ moves' = mvs
               /\ positions' = positions \o <<get_hash(b.data)>>
                                   \o HashesAfter(b.data, mvs)
               /\ board' = Some(BoardAfter(b.data, mvs))
               /\ err' = <<>>
    /\ out' = <<>> /\ taken' = NoAnswer
    /\ UNCHANGED <<cpc, quit, search_sig>>
    /\ UNCHANGED <<cmdq, respq, seen, mark, workerVars, ttVars, concVars, searchVars>>

\* a handle_position that stores the move list before it parses the FEN:
\* what C20 rules out
handle_position_moves_first(fen, mvs) ==
    /\ cpc = "loop"
    /\ LET b == IF fen.kind = "Some" THEN Board_from_str(fen.data)
                ELSE Some(StartBoard)
       IN IF b.kind = "None"
          THEN /\ err' = <<"Error: InvalidFen">>
               /\ moves' = mvs
               /\ UNCHANGED <<board, positions>>
          ELSE /\ moves' = mvs
               /\ positions' = <<get_hash(b.data)>> \o HashesAfter(b.data, mvs)
               /\ board' = Some(BoardAfter(b.data, mvs))
               /\ err' = <<>>
    /\ out' = <<>> /\ taken' = NoAnswer
    /\ UNCHANGED <<cpc, quit, search_sig>>
    /\ UNCHANGED <<cmdq, respq, seen, mark, workerVars, ttVars, concVars, searchVars>>

\* Engine::handle_position(fen, moves)
handle_position(fen, mvs) ==
    /\ cpc = "loop"
    /\ LET b == IF fen.kind = "Some" THEN Board_from_str(fen.data)
                ELSE Some(StartBoard)
       IN IF b.kind = "None"
          THEN /\ err' = <<"Error: InvalidFen">>
               /\ UNCHANGED <<board, moves, positions>>
          ELSE /\ moves' = mvs
               /\ positions' = <<get_hash(b.data)>> \o HashesAfter(b.data, mvs)
               /\ board' = Some(BoardAfter(b.data, mvs))
               /\ err' = <<>>
    /\ out' = <<>> /\ taken' = NoAnswer
    /\ UNCHANGED <<cpc, quit, search_sig>>
    /\ UNCHANGED <<cmdq, respq, seen, mark, workerVars, ttVars, concVars, searchVars>>

\* a handle_go that searches Board::default() when no position is loaded:
\* what C14 rules out
handle_go_default_board(depth, movetime, infinite) ==
    /\ cpc = "loop"
    /\ LET ctrl == SearchControl_try_from(depth, movetime, infinite)
       IN IF ctrl.kind = "None"
          THEN /\ err' = <<"Error: ()">>
               /\ UNCHANGED <<cpc, quit, board, moves, positions, cmdq>>
          ELSE /\ IF WorkerDead
                  THEN /\ quit' = TRUE /\ cpc' = "quit" /\ UNCHANGED cmdq
                       /\ err' = <<"Error: SendError">>
                  ELSE /\ InFlight < MaxInFlight
                       /\ cmdq' = Append(cmdq,
                              Search(SearchRequest(ctrl.data,
                                  IF board.kind = "None" THEN StartBoard
                                  ELSE board.data, positions)))
                       /\ err' = <<>>
                       /\ UNCHANGED <<cpc, quit>>
               /\ board' = None
               /\ moves' = <<>>
               /\ positions' = <<>>
    /\ out' = <<>> /\ taken' = NoAnswer
    /\ UNCHANGED search_sig
    /\ UNCHANGED <<respq, seen, mark, workerVars, ttVars, concVars, searchVars>>

\* a handle_go that keeps the stored position after dispatching: what C16
\* rules out
handle_go_keeps_position(depth, movetime, infinite) ==
    /\ cpc = "loop"
    /\ LET ctrl == SearchControl_try_from(depth, movetime, infinite)
       IN IF board.kind = "None"
          THEN /\ err' = <<"Error: No board position set.">>
               /\ UNCHANGED <<cpc, quit, cmdq>>
          ELSE IF ctrl.kind = "None"
          THEN /\ err' = <<"Error: ()">>
               /\ UNCHANGED <<cpc, quit, cmdq>>
          ELSE IF WorkerDead
          THEN /\ quit' = TRUE /\ cpc' = "quit" /\ UNCHANGED cmdq
               /\ err' = <<"Error: SendError">>
          ELSE /\ InFlight < MaxInFlight
               /\ cmdq' = Append(cmdq, build_search_cmd(ctrl.data))
               /\ err' = <<>>
               /\ UNCHANGED <<cpc, quit>>
    /\ out' = <<>> /\ taken' = NoAnswer
    /\ UNCHANGED <<board, moves, positions, search_sig>>
    /\ UNCHANGED <<respq, seen, mark, workerVars, ttVars, concVars, searchVars>>

\* Engine::handle_go for Go { depth, movetime, infinite }
handle_go(depth, movetime, infinite) ==
    /\ cpc = "loop"
    /\ LET ctrl == SearchControl_try_from(depth, movetime, infinite)
       IN IF board.kind = "None"
          THEN /\ err' = <<"Error: No board position set.">>
               /\ UNCHANGED <<cpc, quit, board, moves, positions, cmdq>>
          ELSE IF ctrl.kind = "None"
          THEN /\ err' = <<"Error: ()">>
               /\ UNCHANGED <<cpc, quit, board, moves, positions, cmdq>>
          ELSE /\ IF WorkerDead
                  THEN /\ quit' = TRUE /\ cpc' = "quit" /\ UNCHANGED cmdq
                       /\ err' = <<"Error: SendError">>
                  ELSE /\ InFlight < MaxInFlight
                       /\ cmdq' = Append(cmdq, build_search_cmd(ctrl.data))
                       /\ err' = <<>>
                       /\ UNCHANGED <<cpc, quit>>
               /\ board' = None
               /\ moves' = <<>>
               /\ positions' = <<>>
    /\ out' = <<>> /\ taken' = NoAnswer
    /\ UNCHANGED search_sig
    /\ UNCHANGED <<respq, seen, mark, workerVars, ttVars, concVars, searchVars>>

\* a handle_stop that sets the flag and returns to the loop without waiting
\* for a response: what C17 rules out
handle_stop_no_wait ==
    /\ cpc = "loop"
    /\ search_sig' = TRUE
    /\ mark' = IF wpc = "iter" THEN Some(wres.msg.depth) ELSE mark
    /\ out' = <<[line |-> "lets try to stop..."]>>
    /\ err' = <<>>
    /\ taken' = NoAnswer
    /\ UNCHANGED <<cpc, quit, board, moves, positions>>
    /\ UNCHANGED <<cmdq, respq, seen, workerVars, ttVars, concVars, searchVars>>

\* Engine::handle_stop up to its recv: the flag is set
handle_stop ==
    /\ cpc = "loop"
    /\ search_sig' = TRUE
    /\ mark' = IF wpc = "iter" THEN Some(wres.msg.depth) ELSE mark
    /\ cpc' = "stop_recv"
    /\ out' = <<[line |-> "lets try to stop..."]>>
    /\ err' = <<>>
    /\ taken' = NoAnswer
    /\ UNCHANGED <<quit, board, moves, positions>>
    /\ UNCHANGED <<cmdq, respq, seen, workerVars, ttVars, concVars, searchVars>>

\* handle_stop: the blocking recv returns a response, which is printed
handle_stop_recv ==
    /\ cpc = "stop_recv"
    /\ respq # <<>>
    /\ respq' = Tail(respq)
    /\ taken' = Head(respq)
    /\ out' = print_search_response(Head(respq).msg)
    /\ err' = <<>>
    /\ cpc' = "stop_clear"
    /\ UNCHANGED <<quit, board, moves, positions, search_sig, cmdq, seen, mark>>
    /\ UNCHANGED <<workerVars, ttVars, concVars, searchVars>>

\* handle_stop: recv gives Err because the channel is empty and
\* disconnected; quit = true and the flag is left as it is
handle_stop_err ==
    /\ cpc = "stop_recv"
    /\ respq = <<>>
    /\ wpc = "panicked"
    /\ quit' = TRUE
    /\ cpc' = "quit"
    /\ out' = <<>> /\ err' = <<"Error: RecvError">> /\ taken' = NoAnswer
    /\ UNCHANGED <<board, moves, positions, search_sig>>
    /\ UNCHANGED <<cmdq, respq, seen, mark, workerVars, ttVars, concVars, searchVars>>

\* a handle_stop that returns to the loop without clearing the flag: what
\* C4 rules out
handle_stop_keeps_flag ==
    /\ cpc = "stop_clear"
    /\ cpc' = "loop"
    /\ out' = <<>> /\ err' = <<>> /\ taken' = NoAnswer
    /\ UNCHANGED <<quit, board, moves, positions, search_sig>>
    /\ UNCHANGED <<cmdq, respq, seen, mark, workerVars, ttVars, concVars, searchVars>>

\* handle_stop after the print: the flag is cleared, back to the loop
handle_stop_clear ==
    /\ cpc = "stop_clear"
    /\ search_sig' = FALSE
    /\ cpc' = "loop"
    /\ out' = <<>> /\ err' = <<>> /\ taken' = NoAnswer
    /\ UNCHANGED <<quit, board, moves, positions>>
    /\ UNCHANGED <<cmdq, respq, seen, mark, workerVars, ttVars, concVars, searchVars>>

\* SearchHandler::quit: send Quit; when the send fails (the worker is gone)
\* return at once, else go on to join
SearchHandler_quit ==
    /\ cpc = "quit"
    /\ IF WorkerDead
       THEN cpc' = "done" /\ UNCHANGED cmdq
       ELSE cpc' = "join" /\ cmdq' = Append(cmdq, Quit)
    /\ out' = <<>> /\ err' = <<>> /\ taken' = NoAnswer
    /\ UNCHANGED <<quit, board, moves, positions, search_sig>>
    /\ UNCHANGED <<respq, seen, mark, workerVars, ttVars, concVars, searchVars>>

\* SearchHandler::quit: handle.join() returns once the worker thread ended
SearchHandler_join ==
    /\ cpc = "join"
    /\ WorkerDead
    /\ cpc' = "done"
    /\ out' = <<>> /\ err' = <<>> /\ taken' = NoAnswer
    /\ UNCHANGED <<quit, board, moves, positions, search_sig>>
    /\ UNCHANGED <<cmdq, respq, seen, mark, workerVars, ttVars, concVars, searchVars>>

\* the steps the controller takes without reading a command
ControllerNext ==
    \/ RunResponse
    \/ RunDisconnected
    \/ handle_stop_recv
    \/ handle_stop_err
    \/ handle_stop_clear
    \/ SearchHandler_quit
    \/ SearchHandler_join

\* the commands the UCI reader hands to the controller
CommandNext ==
    \/ handle_quit
    \/ \E p \in PositionInputs : handle_position(p.fen, p.moves)
    \/ \E depth \in GoDepths, movetime \in GoMovetimes, infinite \in BOOLEAN :
           handle_go(depth, movetime, infinite)
    \/ handle_stop

Init ==
    /\ EngineIdle
    /\ TTIdle
    /\ ConcIdle
    /\ ttArgs = <<TTArgs2, TTArgs2>>

Next == WorkerNext \/ ControllerNext \/ CommandNext

Spec == Init /\ [][Next]_vars

\* the threads keep running: a step the worker or the controller can take
\* is taken; no command is ever bound to arrive
FairSpec == Spec /\ WF_vars(WorkerNext) /\ WF_vars(ControllerNext)

(***************************************************************************)
(* evaluation/psqt.rs and evaluation/score.rs: piece values, piece-square  *)
(* tables and the scores built from them.  A chess::Board is its 64        *)
(* squares (index rank * 8 + file, a1 = 0), the side to move, the en       *)
(* passant square and the castle rights.                                   *)
(***************************************************************************)
PAWN == 100

KNIGHT == 320

BISHOP == 330

ROOK == 500

QUEEN == 900

KING == 20000

\* psqt.rs: the PieceTable score_piece_position reads for a piece, rank 8
\* first
PieceTable(piece) ==
    CASE piece = "Pawn" ->   \* PAWN_TABLE
           <<0, 0, 0, 0, 0, 0, 0, 0,
            50, 50, 50, 50, 50, 50, 50, 50,
            10, 10, 20, 30, 30, 20, 10, 10,
            5, 5, 10, 25, 25, 10, 5, 5,
            0, 0, 0, 20, 20, 0, 0, 0,
            5, -5, -10, 0, 0, -10, -5, 5,
            5, 10, 10, -20, -20, 10, 10, 5,
            0, 0, 0, 0, 0, 0, 0, 0>>
      [] piece = "Knight" ->   \* KNIGHT_TABLE
           <<-50, -40, -30, -30, -30, -30, -40, -50,
            -40, -20, 0, 0, 0, 0, -20, -40,
            -30, 0, 10, 15, 15, 10, 0, -30,
            -30, 5, 15, 20, 20, 15, 5, -30,
            -30, 0, 15, 20, 20, 15, 0, -30,
            -30, 5, 10, 15, 15, 10, 5, -30,
            -40, -20, 0, 5, 5, 0, -20, -40,
            -50, -40, -30, -30, -30, -30, -40, -50>>
      [] piece = "Bishop" ->   \* BISHOP_TABLE
           <<-20, -10, -10, -10, -10, -10, -10, -20,
            -10, 0, 0, 0, 0, 0, 0, -10,
            -10, 0, 5, 10, 10, 5, 0, -10,
            -10, 5, 5, 10, 10, 5, 5, -10,
            -10, 0, 10, 10, 10, 10, 0, -10,
            -10, 10, 10, 10, 10, 10, 10, -10,
            -10, 5, 0, 0, 0, 0, 5, -10,
            -20, -10, -10, -10, -10, -10, -10, -20>>
      [] piece = "Rook" ->   \* ROOK_TABLE
           <<0, 0, 0, 0, 0, 0, 0, 0,
            5, 10, 10, 10, 10, 10, 10, 5,
            -5, 0, 0, 0, 0, 0, 0, -5,
            -5, 0, 0, 0, 0, 0, 0, -5,
            -5, 0, 0, 0, 0, 0, 0, -5,
            -5, 0, 0, 0, 0, 0, 0, -5,
            -5, 0, 0, 0, 0, 0, 0, -5,
            0, 0, 0, 5, 5, 0, 0, 0>>
      [] piece = "Queen" ->   \* QUEEN_TABLE
           <<-20, -10, -10, -5, -5, -10, -10, -20,
            -10, 0, 0, 0, 0, 0, 0, -10,
            -10, 0, 5, 5, 5, 5, 0, -10,
            -5, 0, 5, 5, 5, 5, 0, -5,
            0, 0, 5, 5, 5, 5, 0, -5,
            -10, 5, 5, 5, 5, 5, 0, -10,
            -10, 0, 5, 0, 0, 0, 0, -10,
            -20, -10, -10, -5, -5, -10, -10, -20>>
      [] piece = "King" ->   \* KING_TABLE_MID
           <<-30, -40, -40, -50, -50, -40, -40, -30,
            -30, -40, -40, -50, -50, -40, -40, -30,
            -30, -40, -40, -50, -50, -40, -40, -30,
            -30, -40, -40, -50, -50, -40, -40, -30,
            -20, -30, -30, -40, -40, -30, -30, -20,
            -10, -20, -20, -20, -20, -20, -20, -10,
            20, 20, 0, 0, 0, 0, 20, 20,
            20, 30, 10, 0, 0, 10, 30, 20>>

\* score::piece_value
piece_value(piece) ==
    CASE piece = "Pawn" -> PAWN
      [] piece = "Knight" -> KNIGHT
      [] piece = "Bishop" -> BISHOP
      [] piece = "Rook" -> ROOK
      [] piece = "Queen" -> QUEEN
      [] piece = "King" -> KING

\* Square::get_file and Square::get_rank, as indices
get_file(s) == s % 8

get_rank(s) == s \div 8

\* PieceTable::eval_position: white reads the table with the rank flipped
eval_position(tbl, color, rank, file) ==
    LET r_idx == IF color = "White" THEN 8 - rank - 1 ELSE rank
    IN tbl[(r_idx * 8) + file + 1]

\* score::score_piece_position: PieceTable::eval_with_piece on the piece's
\* table
score_piece_position(piece, color, rank, file) ==
    piece_value(piece) + eval_position(PieceTable(piece), color, rank, file)

\* an empty square: piece_on and color_on give None
NoPiece == [piece |-> "None", color |-> "None"]

\* score::score_board_position: (white, black), summed over the 64 squares
score_board_position(b) ==
    LET on(s, c) == IF b.sq[s].color = c
                    THEN score_piece_position(b.sq[s].piece, c,
                                              get_rank(s), get_file(s))
                    ELSE 0
        white[s \in 0..64] == IF s = 64 THEN 0 ELSE on(s, "White") + white[s + 1]
        black[s \in 0..64] == IF s = 64 THEN 0 ELSE on(s, "Black") + black[s + 1]
    IN [white |-> white[0], black |-> black[0]]

\* MoveInfo::from_move
MoveInfo_from_move(m, b) ==
    [color_to_move |-> b.sq[m.source].color,
     promotion |-> IF m.promotion # "None"
                   THEN Some([piece |-> m.promotion, sq |-> m.dest])
                   ELSE None,
     capture |-> IF b.sq[m.dest].piece # "None"
                 THEN Some([piece |-> b.sq[m.dest].piece, sq |-> m.dest])
                 ELSE None,
     from |-> m.source,
     to |-> m.dest,
     piece |-> b.sq[m.source].piece]

\* !color
Not(color) == IF color = "White" THEN "Black" ELSE "White"

\* score::score_capture_diff
score_capture_diff(info) ==
    IF info.capture.kind = "Some"
    THEN -score_piece_position(info.capture.data.piece,
                               Not(info.color_to_move),
                               get_rank(info.capture.data.sq),
                               get_file(info.capture.data.sq))
    ELSE 0

\* score::score_position_diff
score_position_diff(info) ==
    LET start_score == score_piece_position(info.piece, info.color_to_move,
                                            get_rank(info.from),
                                            get_file(info.from))
    IN IF info.promotion.kind = "Some"
       THEN score_piece_position(info.promotion.data.piece,
                                 info.color_to_move,
                                 get_rank(info.promotion.data.sq),
                                 get_file(info.promotion.data.sq))
            - start_score
       ELSE score_piece_position(info.piece, info.color_to_move,
                                 get_rank(info.to), get_file(info.to))
            - start_score

(***************************************************************************)
(* The chess crate, as far as the evaluation needs it: making a move and   *)
(* generating the legal moves                                              *)
(***************************************************************************)
Abs(x) == IF x < 0 THEN -x ELSE x

Sgn(x) == IF x < 0 THEN -1 ELSE IF x > 0 THEN 1 ELSE 0

\* whether the piece standing on p attacks the square t
Attacks(sq, p, t) ==
    LET df == get_file(t) - get_file(p)
        dr == get_rank(t) - get_rank(p)
        n == IF Abs(df) > Abs(dr) THEN Abs(df) ELSE Abs(dr)
        clear == \A k \in 1..(n - 1) :
                     sq[p + k * (Sgn(df) + 8 * Sgn(dr))] = NoPiece
        straight == (df = 0 \/ dr = 0) /\ n > 0 /\ clear
        diagonal == Abs(df) = Abs(dr) /\ n > 0 /\ clear
    IN CASE sq[p].piece = "Pawn" ->
                Abs(df) = 1 /\ dr = (IF sq[p].color = "White" THEN 1 ELSE -1)
         [] sq[p].piece = "Knight" -> {Abs(df), Abs(dr)} = {1, 2}
         [] sq[p].piece = "King" -> n = 1
         [] sq[p].piece = "Rook" -> straight
         [] sq[p].piece = "Bishop" -> diagonal
         [] sq[p].piece = "Queen" -> straight \/ diagonal
         [] OTHER -> FALSE

\* whether a piece of the given color attacks the square t
Attacked(sq, t, color) ==
    \E p \in 0..63 : sq[p].color = color /\ Attacks(sq, p, t)

\* Board::make_move_new on a board with squares, side to move, en passant
\* square and castle rights
Board_make_move_new(b, m) ==
    LET pc == b.sq[m.source]
        en_passant == /\ pc.piece = "Pawn"
                      /\ get_file(m.source) # get_file(m.dest)
                      /\ b.sq[m.dest] = NoPiece
        castle == pc.piece = "King"
                      /\ Abs(get_file(m.dest) - get_file(m.source)) = 2
        rook_from == IF get_file(m.dest) = 6 THEN m.source + 3
                     ELSE m.source - 4
        rook_to == IF get_file(m.dest) = 6 THEN m.source + 1
                   ELSE m.source - 1
        lost == (IF pc = [piece |-> "King", color |-> "White"]
                 THEN {"WK", "WQ"} ELSE {})
                \cup (IF pc = [piece |-> "King", color |-> "Black"]
                      THEN {"BK", "BQ"} ELSE {})
                \cup (IF 0 \in {m.source, m.dest} THEN {"WQ"} ELSE {})
                \cup (IF 7 \in {m.source, m.dest} THEN {"WK"} ELSE {})
                \cup (IF 56 \in {m.source, m.dest} THEN {"BQ"} ELSE {})
                \cup (IF 63 \in {m.source, m.dest} THEN {"BK"} ELSE {})
    IN [sq |-> [s \in 0..63 |->
                   CASE s = m.dest ->
                            [piece |-> IF m.promotion # "None"
                                       THEN m.promotion ELSE pc.piece,
                             color |-> pc.color]
                     [] s = m.source -> NoPiece
                     [] en_passant
                        /\ s = get_rank(m.source) * 8 + get_file(m.dest) ->
                            NoPiece
                     [] castle /\ s = rook_from -> NoPiece
                     [] castle /\ s = rook_to ->
                            [piece |-> "Rook", color |-> pc.color]
                     [] OTHER -> b.sq[s]],
        stm |-> Not(b.stm),
        ep |-> IF pc.piece = "Pawn"
                  /\ Abs(get_rank(m.dest) - get_rank(m.source)) = 2
               THEN Some((m.source + m.dest) \div 2) ELSE None,
        castle |-> b.castle \ lost]

\* MoveGen::new_legal, as a set: the moves of the side to move that follow
\* the piece's rule and leave its own king unattacked
MoveGen_new_legal(b) ==
    LET us == b.stm
        dir == IF us = "White" THEN 8 ELSE -8
        home == IF us = "White" THEN 1 ELSE 6
        last == IF us = "White" THEN 7 ELSE 0
        promos(t) == IF get_rank(t) = last
                     THEN {"Knight", "Bishop", "Rook", "Queen"}
                     ELSE {"None"}
        pawn(p) ==
            {ChessMove(p, p + dir, pr) : pr \in
                 IF b.sq[p + dir] = NoPiece THEN promos(p + dir) ELSE {}}
            \cup {ChessMove(p, p + 2 * dir, "None") : x \in
                 IF /\ get_rank(p) = home
                    /\ b.sq[p + dir] = NoPiece
                    /\ b.sq[p + 2 * dir] = NoPiece
                 THEN {0} ELSE {}}
            \cup UNION {{ChessMove(p, t, pr) : pr \in promos(t)} : t \in
                 {t \in 0..63 : /\ Attacks(b.sq, p, t)
                                /\ \/ b.sq[t].color = Not(us)
                                   \/ b.ep = Some(t)}}
        piece(p) ==
            {ChessMove(p, t, "None") : t \in
                 {t \in 0..63 : Attacks(b.sq, p, t) /\ b.sq[t].color # us}}
        king == IF us = "White" THEN 4 ELSE 60
        free(S) == \A s \in S : b.sq[s] = NoPiece
        safe(S) == \A s \in S : ~Attacked(b.sq, s, Not(us))
        castles ==
            {ChessMove(king, king + 2, "None") : x \in
                 IF /\ (IF us = "White" THEN "WK" ELSE "BK") \in b.castle
                    /\ free({king + 1, king + 2})
                    /\ safe({king, king + 1, king + 2})
                 THEN {0} ELSE {}}
            \cup {ChessMove(king, king - 2, "None") : x \in
                 IF /\ (IF us = "White" THEN "WQ" ELSE "BQ") \in b.castle
                    /\ free({king - 1, king - 2, king - 3})
                    /\ safe({king, king - 1, king - 2})
                 THEN {0} ELSE {}}
        pseudo == castles \cup UNION
            {IF b.sq[p].piece = "Pawn" THEN pawn(p) ELSE piece(p) :
                 p \in {q \in 0..63 : b.sq[q].color = us}}
        king_safe(m) ==
            LET after == Board_make_move_new(b, m).sq
            IN \A s \in 0..63 :
                   after[s] = [piece |-> "King", color |-> us] =>
                       ~Attacked(after, s, Not(us))
    IN {m \in pseudo : king_safe(m)}

\* a board from the pieces standing on it
BoardOf(placed, stm, castle) ==
    [sq |-> [s \in 0..63 |->
                IF \E x \in placed : x[1] = s
                THEN LET x == CHOOSE x \in placed : x[1] = s
                     IN [piece |-> x[2], color |-> x[3]]
                ELSE NoPiece],
     stm |-> stm, ep |-> None, castle |-> castle]

\* the positions searched from: both kings at home, white rooks on a1 and h1
\* with both castle rights, white pawns on e5 and b7, a black pawn on d7 and
\* a black knight on c8; either side to move
EvalBoards ==
    {BoardOf({<<4, "King", "White">>, <<0, "Rook", "White">>,
              <<7, "Rook", "White">>, <<36, "Pawn", "White">>,
              <<49, "Pawn", "White">>, <<60, "King", "Black">>,
              <<51, "Pawn", "Black">>, <<58, "Knight", "Black">>},
             stm, {"WK", "WQ"}) : stm \in {"White", "Black"}}

\* plies applied on top of the position searched from
MaxEvalPly == 3

\* SearchContext: board, white_position and black_position; ply counts the
\* moves applied and last is the kind of the latest one
SearchContext_new(b, white_position, black_position, ply, last) ==
    [board |-> b, white_position |-> white_position,
     black_position |-> black_position, ply |-> ply, last |-> last]

\* the kind of the move m on the board b
MoveKind(b, m) ==
    CASE b.sq[m.source].piece = "King"
         /\ get_file(m.dest) - get_file(m.source) = 2 -> "castle short"
      [] b.sq[m.source].piece = "King"
         /\ get_file(m.source) - get_file(m.dest) = 2 -> "castle long"
      [] b.sq[m.source].piece = "Pawn" /\ b.ep = Some(m.dest) -> "en passant"
      [] m.promotion # "None" -> "promotion"
      [] b.sq[m.dest] # NoPiece -> "capture"
      [] OTHER -> "quiet"

\* SearchContext::from_board
from_board(b) ==
    /\ cx = None
    /\ cx' = Some(SearchContext_new(b, score_board_position(b).white,
                                    score_board_position(b).black, 0, "none"))
    /\ UNCHANGED <<nm, hist, ttVars, concVars, engineVars>>

\* the context SearchContext::apply_move_new(&self, m) returns
SearchContext_apply(self, m) ==
    LET info == MoveInfo_from_move(m, self.board)
        position_diff == score_position_diff(info)
        capture_diff == score_capture_diff(info)
        white == info.color_to_move = "White"
    IN SearchContext_new(
           Board_make_move_new(self.board, m),
           self.white_position
               + (IF white THEN position_diff ELSE capture_diff),
           self.black_position
               + (IF white THEN capture_diff ELSE position_diff),
           self.ply + 1, MoveKind(self.board, m))

\* SearchContext::apply_move_new
apply_move_new(m) ==
    /\ cx # None
    /\ cx.data.ply < MaxEvalPly
    /\ cx' = Some(SearchContext_apply(cx.data, m))
    /\ UNCHANGED <<nm, hist, ttVars, concVars, engineVars>>

\* the moves a search applies: the legal moves of the context's board
EvalMoves == IF cx = None THEN {} ELSE MoveGen_new_legal(cx.data.board)

EvalNext ==
    \/ \E b \in EvalBoards : from_board(b)
    \/ \E m \in EvalMoves : apply_move_new(m)

SpecEval == Init /\ [][EvalNext]_vars

\* C11: the white and black scores a SearchContext carries after any
\* sequence of legal moves applied with apply_move_new, starting from
\* score_board_position of the first position, are score_board_position of
\* the position reached.
C11_IncrementalIsFull ==
    cx # None =>
        /\ cx.data.white_position = score_board_position(cx.data.board).white
        /\ cx.data.black_position = score_board_position(cx.data.board).black

(***************************************************************************)
(* search/sort.rs: move ordering on the board of the context               *)
(***************************************************************************)

\* chess::Piece as u8, 6 standing for no piece
PieceIndex(piece) ==
    CASE piece = "Pawn" -> 0
      [] piece = "Knight" -> 1
      [] piece = "Bishop" -> 2
      [] piece = "Rook" -> 3
      [] piece = "Queen" -> 4
      [] piece = "King" -> 5
      [] OTHER -> 6

\* MVV_LVA[victim][attacker]
MVV_LVA ==
    <<<<15, 14, 13, 12, 11, 10, 0>>,
      <<25, 24, 23, 22, 21, 20, 0>>,
      <<35, 34, 33, 32, 31, 30, 0>>,
      <<45, 44, 43, 42, 41, 40, 0>>,
      <<55, 54, 53, 52, 51, 50, 0>>,
      <<0, 0, 0, 0, 0, 0, 0>>,
      <<0, 0, 0, 0, 0, 0, 0>>>>

get_mvv_lva_score(victim, attacker) == MVV_LVA[victim + 1][attacker + 1]

\* the place of the move m in the order MoveGen::new_legal yields the moves
\* of b: by piece kind from pawn to king, en passant after the other pawn
\* moves, then by source square, by destination square, and by promotion
\* piece (queen, knight, rook, bishop)
MoveGen_place(b, m) ==
    LET kind == IF b.sq[m.source].piece = "Pawn" /\ b.ep = Some(m.dest)
                THEN 1
                ELSE IF b.sq[m.source].piece = "Pawn" THEN 0
                ELSE PieceIndex(b.sq[m.source].piece) + 1
        promotion == CASE m.promotion = "Knight" -> 1
                       [] m.promotion = "Rook" -> 2
                       [] m.promotion = "Bishop" -> 3
                       [] OTHER -> 0
    IN kind * 100000 + m.source * 1000 + m.dest * 10 + promotion

\* sort::get_sorted_moves(board): the legal moves collected in the order of
\* MoveGen and sorted by descending MVV_LVA score, the sort being stable
sort_get_sorted_moves(b) ==
    LET legal == MoveGen_new_legal(b)
        score(m) == get_mvv_lva_score(PieceIndex(b.sq[m.dest].piece),
                                      PieceIndex(b.sq[m.source].piece))
        before(a, m) ==
            \/ score(a) > score(m)
            \/ score(a) = score(m) /\ MoveGen_place(b, a) < MoveGen_place(b, m)
    IN [i \in 1..Cardinality(legal) |->
           CHOOSE m \in legal :
               Cardinality({a \in legal : before(a, m)}) = i - 1]

\* C24: get_sorted_moves(P) is a permutation of the legal moves of P in
\* which every capture comes before every non-capture, a capture of a more
\* valuable victim before one of a less valuable victim, and for the same
\* victim the less valuable aggressor first. The victim of an en passant
\* capture is the pawn taken.
C24_CapturesFirst ==
    cx # None =>
        LET b == cx.data.board
            mg == sort_get_sorted_moves(b)
            en_passant(m) ==
                b.sq[m.source].piece = "Pawn" /\ b.ep = Some(m.dest)
            capture(m) == b.sq[m.dest] # NoPiece \/ en_passant(m)
            victim(m) == IF en_passant(m) THEN PAWN
                         ELSE piece_value(b.sq[m.dest].piece)
            aggressor(m) == piece_value(b.sq[m.source].piece)
        IN /\ Len(mg) = Cardinality(MoveGen_new_legal(b))
           /\ {mg[i] : i \in 1..Len(mg)} = MoveGen_new_legal(b)
           /\ \A i, j \in 1..Len(mg) :
                  (i < j /\ capture(mg[j])) =>
                      /\ capture(mg[i])
                      /\ victim(mg[i]) >= victim(mg[j])
                      /\ victim(mg[i]) = victim(mg[j])
                             => aggressor(mg[i]) <= aggressor(mg[j])

(***************************************************************************)
(* search/alpha_beta.rs:135-175: the recursion of quiescence_search over   *)
(* the boards of the chess crate                                           *)
(***************************************************************************)

\* plies of nega_max in front of the quiescence search
MaxQuietPly == 2

\* the recursion followed over every legal move
any_move(m, b) == TRUE

\* util::is_capture(m, b): the destination square is occupied
util_is_capture(m, b) == b.sq[m.dest] # NoPiece

\* board.combined().popcnt(): the pieces on the board
PieceCount(b) == Cardinality({s \in 0..63 : b.sq[s] # NoPiece})

\* nega_max, alpha_beta.rs:95: a ply of the main search
QuiescePly(m) ==
    /\ cx # None
    /\ nm = None
    /\ cx.data.ply < MaxQuietPly
    /\ cx' = Some(SearchContext_apply(cx.data, m))
    /\ UNCHANGED <<nm, hist, ttVars, concVars, engineVars>>

\* nega_max, alpha_beta.rs:88-90: quiescence_search is called at depth 0
QuiesceEnter ==
    /\ cx # None
    /\ nm = None
    /\ nm' = [entry |-> PieceCount(cx.data.board), qdepth |-> 0]
    /\ UNCHANGED <<cx, hist, ttVars, concVars, engineVars>>

\* quiescence_search, alpha_beta.rs:153-156: the recursive call for a move
\* is_capture holds of
QuiesceDescend(m) ==
    /\ cx # None
    /\ nm # None
    /\ util_is_capture(m, cx.data.board)
    /\ cx' = Some(SearchContext_apply(cx.data, m))
    /\ nm' = [nm EXCEPT !.qdepth = @ + 1]
    /\ UNCHANGED <<hist, ttVars, concVars, engineVars>>

QuiesceNext ==
    \/ \E b \in EvalBoards : from_board(b)
    \/ \E m \in EvalMoves : QuiescePly(m)
    \/ QuiesceEnter
    \/ \E m \in EvalMoves : QuiesceDescend(m)

SpecQuiesce == Init /\ [][QuiesceNext]_vars

\* C40: every recursive call of quiescence_search follows a move onto an
\* occupied square and leaves one piece fewer on the board, so the depth of
\* the recursion is bounded by the number of pieces at its entry and every
\* call terminates.
C40_QuiescenceBounded ==
    (cx # None /\ nm # None) =>
        /\ nm.qdepth + PieceCount(cx.data.board) = nm.entry
        /\ nm.qdepth < nm.entry

\* a recursion two captures deep
C40_TwoCapturesDeep == cx # None /\ nm # None /\ nm.qdepth = 2

(***************************************************************************)
(* search/alpha_beta.rs and search/history.rs: nega_max over the abstract  *)
(* boards, with the transposition table and the history array it shares    *)
(* with its callers threaded through                                       *)
(***************************************************************************)
MIN_SCORE == -32641

CHECKMATE_SCORE == -32514

MAX_PLY == 64

CHECK_TERMINATION == 2047

\* the boards nega_max is called on
SearchBoards == {MatedBoard, MidBoard, StaleBoard, LoopBoard, BackBoard}

\* util::is_check: board.checkers() is not empty
is_check(b) == b = MatedBoard

\* util::is_capture: a piece stands on the move's destination
is_capture(m, b) == b \in {LoopBoard, BackBoard} /\ m = 2

\* sort::get_sorted_moves: the legal moves, captures first (by MVV-LVA), the
\* sort being stable
get_sorted_moves(b) ==
    SelectSeq(new_legal(b), LAMBDA m : is_capture(m, b))
        \o SelectSeq(new_legal(b), LAMBDA m : ~is_capture(m, b))

\* SearchContext::board_score: the carried scores, from the side to move
board_score(b) ==
    CASE b = LoopBoard -> 20
      [] b = BackBoard -> -20
      [] b = MidBoard -> 10
      [] OTHER -> 0

\* MoveHistory::seen_times over the whole array: arr is its written prefix,
\* the other slots still hold the 0 of MoveHistory::new
seen_times(arr, hash) ==
    Cardinality({i \in 1..Len(arr) : arr[i] = hash})
        + (IF hash = 0 THEN MAX_PLY - Len(arr) ELSE 0)

\* MoveHistory::push on a history of length len: the array after the write
push(arr, len, b_hash) ==
    IF len < Len(arr) THEN [arr EXCEPT ![len + 1] = b_hash]
    ELSE Append(arr, b_hash)

\* MoveHistory::from_vec
from_vec(hashes) == [arr |-> hashes, len |-> Len(hashes)]

\* the repetition test of nega_max and quiescence_search, with the count at
\* which a fourth occurrence would be asked for
is_repetition_fourth(arr, hash) == seen_times(arr, hash) >= 4

\* the repetition test of nega_max and quiescence_search
is_repetition(arr, hash) == seen_times(arr, hash) >= 3

Max(a, b) == IF a >= b THEN a ELSE b

Min(a, b) == IF a <= b THEN a ELSE b

\* u8::MAX: the largest depth a SearchControl::Depth(u8) carries and the
\* bound search_iterative is called with
U8_MAX == 255

\* the values of an i16
I16 == -(2^15)..(2^15 - 1)

\* i16 arithmetic that wraps: a build without overflow checks
WrapI16(x) == ((x + 2^15) % 2^16) - 2^15

\* NegaMaxResult::new_checkmate(depth_offset)
new_checkmate(depth_offset) == WrapI16(CHECKMATE_SCORE - depth_offset)

\* a probe that takes an entry of any depth: what C29 rules out
tt_hit_any_depth(te, depth) == te.kind = "Some"

\* alpha_beta.rs:43-44: the probe found an entry and its depth is enough
tt_hit(te, depth) == te.kind = "Some" /\ te.data.depth >= depth

\* what a call leaves behind: a NegaMaxResult or a panic, the table and the
\* history array
Returned(score, nodes, tbl, arr) ==
    [panic |-> FALSE, score |-> score, nodes |-> nodes,
     table |-> tbl, arr |-> arr]

Unwound(tbl, arr) ==
    [panic |-> TRUE, score |-> 0, nodes |-> 0, table |-> tbl, arr |-> arr]

RECURSIVE quiescence_search(_, _, _, _, _, _)
RECURSIVE quiescence_moves(_, _, _, _, _, _, _, _, _)
RECURSIVE nega_max(_, _, _, _, _, _, _, _, _)
RECURSIVE nega_max_node(_, _, _, _, _, _, _, _, _)
RECURSIVE nega_max_moves(_, _, _, _, _, _, _, _, _, _, _, _)

\* quiescence_search(ctx, alpha, beta): ctx is the board b with a history of
\* length len
quiescence_search(tbl, arr, len, b, alpha, beta) ==
    LET stand_pat == board_score(b)
    IN IF stand_pat >= beta THEN Returned(stand_pat, 0, tbl, arr)
       ELSE IF is_repetition(arr, get_hash(b)) THEN Returned(0, 0, tbl, arr)
       ELSE quiescence_moves(tbl, arr, len, b, get_sorted_moves(b),
                             Max(alpha, stand_pat), beta, stand_pat, 0)

\* the loop of quiescence_search over the moves left
quiescence_moves(tbl, arr, len, b, mg, alpha, beta, best_value, nodes) ==
    IF mg = <<>> THEN Returned(best_value, nodes, tbl, arr)
    ELSE IF ~is_capture(Head(mg), b)
    THEN quiescence_moves(tbl, arr, len, b, Tail(mg), alpha, beta,
                          best_value, nodes)
    ELSE IF len >= MAX_PLY THEN Unwound(tbl, arr)
    ELSE LET next == make_move_new(b, Head(mg))
             child == quiescence_search(tbl, push(arr, len, get_hash(next)),
                                        len, next, -beta, -alpha)
             score == -child.score
         IN IF child.panic THEN child
            ELSE IF score >= beta
            THEN Returned(score, nodes + child.nodes + 1, tbl, child.arr)
            ELSE quiescence_moves(tbl, child.arr, len, b, Tail(mg),
                                  Max(alpha, score), beta,
                                  Max(best_value, score),
                                  nodes + child.nodes + 1)

\* nega_max, alpha_beta.rs:62-133: the node once the table probe has not
\* answered, with the window the probe left
nega_max_node(tbl, arr, len, b, ply, depth, alpha, beta, stop) ==
    LET hash == get_hash(b)
        mg == get_sorted_moves(b)
        res == IF is_check(b) THEN new_checkmate(depth) ELSE 0
    IN IF mg = <<>>
       THEN Returned(res, 0,
                     TT_set(tbl, FromNat(hash), ply, res, ChessMove_default,
                            alpha, beta),
                     arr)
       ELSE IF is_repetition(arr, hash) THEN Returned(0, 0, tbl, arr)
       ELSE IF depth = 0 THEN quiescence_search(tbl, arr, len, b, alpha, beta)
       ELSE nega_max_moves(tbl, arr, len, b, ply, depth, mg, alpha, beta,
                           MIN_SCORE, 0, stop)

\* nega_max(ctx, depth, alpha, beta): ctx is the board b at ctx.depth = ply
\* with a history of length len; stop is what task_must_stop answers
nega_max(tbl, arr, len, b, ply, depth, alpha0, beta0, stop) ==
    LET te == TT_get(tbl, FromNat(get_hash(b)))
        hit == tt_hit(te, depth)
        alpha == IF hit /\ te.data.node_type = "LowerBound"
                 THEN Max(alpha0, te.data.score) ELSE alpha0
        beta == IF hit /\ te.data.node_type = "UpperBound"
                THEN Min(beta0, te.data.score) ELSE beta0
    IN IF te.kind = "Panic" THEN Unwound(tbl, arr)
       ELSE IF hit /\ (te.data.node_type = "Exact" \/ alpha >= beta)
       THEN Returned(te.data.score, 0, tbl, arr)
       ELSE nega_max_node(tbl, arr, len, b, ply, depth, alpha, beta, stop)

\* the loop of nega_max over the moves left
nega_max_moves(tbl, arr, len, b, ply, depth, mg, alpha0, beta, max0, nodes0, stop) ==
    IF mg = <<>>
    THEN Returned(max0, nodes0,
                  TT_set(tbl, FromNat(get_hash(b)), ply, max0,
                         ChessMove_default, alpha0, beta),
                  arr)
    ELSE IF len >= MAX_PLY THEN Unwound(tbl, arr)
    ELSE LET next == make_move_new(b, Head(mg))
             child == nega_max(tbl, push(arr, len, get_hash(next)), len, next,
                               ply + 1, depth - 1, -beta, -alpha0, stop)
             nodes == nodes0 + child.nodes + 1
             max_score == Max(max0, -child.score)
             alpha == Max(alpha0, max_score)
         IN IF child.panic THEN child
            ELSE IF alpha >= beta
            THEN Returned(max_score, nodes,
                          TT_set(child.table, FromNat(get_hash(b)), ply,
                                 max_score, ChessMove_default, alpha, beta),
                          child.arr)
            ELSE IF nodes % (CHECK_TERMINATION + 1) = 0 /\ stop
            THEN Returned(max_score, nodes, child.table, child.arr)
            ELSE nega_max_moves(child.table, child.arr, len, b, ply, depth,
                                Tail(mg), alpha, beta, max_score, nodes, stop)

\* the deepest remaining depth a call is made with
MaxDepth == 2

\* the histories a call is made with: none, and LoopBoard and BackBoard
\* repeated
SearchHistories ==
    {<<>>,
     <<get_hash(LoopBoard), get_hash(BackBoard), get_hash(LoopBoard),
       get_hash(BackBoard), get_hash(LoopBoard)>>}

\* the windows a call is made with: search_core's and a narrow one
SearchWindows == {<<MIN_SCORE, -MIN_SCORE>>, <<-5, 5>>}

\* a thread that panicked in nega_max has unwound: it makes no further call
SearchAlive == IF nm = None THEN TRUE ELSE ~nm.data.res.panic

\* one call of nega_max as search_core makes it: on the shared table, with a
\* history of its own, at ctx.depth 1, polling the request's flag
NegaMaxCall(b, position_history, depth, window) ==
    /\ SearchAlive
    /\ LET history == from_vec(position_history)
           r == nega_max(table, history.arr, history.len, b, 1, depth,
                         window[1], window[2], task_must_stop(FALSE))
       IN /\ nm' = Some([board |-> b, position_history |-> position_history,
                         depth |-> depth, alpha |-> window[1],
                         beta |-> window[2],
                         entry |-> TT_get(table, FromNat(get_hash(b))).kind,
                         probe |-> TT_get(table, FromNat(get_hash(b))),
                         res |-> [panic |-> r.panic, score |-> r.score,
                                  nodes |-> r.nodes]])
          /\ table' = r.table
    /\ UNCHANGED <<poisoned, ttArgs, ttLast, ttWriter, cx, hist>>
    /\ UNCHANGED <<concVars, engineVars>>

\* the windows a frame deeper in the tree calls the stalemated position
\* with: one whose beta and one whose alpha is the draw score
LeafWindows == {<<-5, 0>>, <<0, 5>>}

SearchNext ==
    \/ \E b \in SearchBoards, position_history \in SearchHistories,
          depth \in 0..MaxDepth, window \in SearchWindows :
           NegaMaxCall(b, position_history, depth, window)
    \/ \E depth \in 0..MaxDepth, window \in LeafWindows :
           NegaMaxCall(StaleBoard, <<>>, depth, window)

SpecSearch == Init /\ [][SearchNext]_vars

RECURSIVE negamax_unpruned(_, _)
\* the negamax value of b at remaining depth depth without a window and
\* without a table: the terminal values of alpha_beta.rs:65-80, the value
\* of quiescence_search at depth 0, the maximum of the negated children
\* otherwise
negamax_unpruned(b, depth) ==
    LET mg == get_sorted_moves(b)
    IN IF mg = <<>>
       THEN IF is_check(b) THEN new_checkmate(depth) ELSE 0
       ELSE IF depth = 0
       THEN quiescence_search(TT_new, <<>>, 0, b, MIN_SCORE, -MIN_SCORE).score
       ELSE LET scores == {-negamax_unpruned(make_move_new(b, mg[i]),
                                             depth - 1) : i \in 1..Len(mg)}
            IN CHOOSE x \in scores : \A y \in scores : x >= y

\* the boards and remaining depths a first call is made with
PlainBoards == 0..14

PlainDepths == 0..7

\* search_core's call of nega_max, the first on the table of TT::new: full
\* window, ctx.depth 1, a history without repetition, the flag unset
PlainCall(b, depth) ==
    /\ nm = None
    /\ table = TT_new
    /\ ~task_must_stop(FALSE)
    /\ LET r == nega_max(table, <<>>, 0, b, 1, depth, MIN_SCORE, -MIN_SCORE,
                         task_must_stop(FALSE))
       IN /\ nm' = Some([board |-> b, position_history |-> <<>>,
                         depth |-> depth, alpha |-> MIN_SCORE,
                         beta |-> -MIN_SCORE,
                         res |-> [panic |-> r.panic, score |-> r.score,
                                  nodes |-> r.nodes]])
          /\ table' = r.table
    /\ UNCHANGED <<poisoned, ttArgs, ttLast, ttWriter, cx, hist>>
    /\ UNCHANGED <<concVars, engineVars>>

PlainNext == \E b \in PlainBoards, depth \in PlainDepths : PlainCall(b, depth)

SpecPlain == Init /\ [][PlainNext]_vars

\* C32: with an empty transposition table, no repetition and no
\* cancellation, nega_max(ctx, d, MIN_SCORE, -MIN_SCORE) returns the score
\* of the unpruned negamax of depth d over the same moves with the same
\* terminal and leaf values.
C32_SameAsUnpruned ==
    nm # None =>
        /\ ~nm.data.res.panic
        /\ nm.data.res.score = negamax_unpruned(nm.data.board, nm.data.depth)

\* the remaining depths the root driver calls nega_max with: a fixed go
\* depth is any u8, iterative deepening runs 1..u8::MAX - 1; every
\* sixteenth value and its neighbours below are taken
RootDepths == {d \in 0..U8_MAX : d % 16 \in {0, 14, 15}}

\* search_core on a root move that mates: nega_max on the mated position
\* with the root's remaining depth and full window. Where
\* CHECKMATE_SCORE - depth leaves the i16 range, a build with overflow
\* checks panics and one without them wraps.
MateCall(depth) ==
    /\ SearchAlive
    /\ LET b == MatedBoard
           found == TT_get(table, FromNat(get_hash(b)))
           r == nega_max(table, <<>>, 0, b, 1, depth, MIN_SCORE, -MIN_SCORE,
                         task_must_stop(FALSE))
           call(res) == [board |-> b, position_history |-> <<>>,
                         depth |-> depth, alpha |-> MIN_SCORE,
                         beta |-> -MIN_SCORE, entry |-> found.kind,
                         probe |-> found, res |-> res]
       IN \/ /\ nm' = Some(call([panic |-> r.panic, score |-> r.score,
                                  nodes |-> r.nodes]))
             /\ table' = r.table
          \/ /\ found = None
             /\ CHECKMATE_SCORE - depth \notin I16
             /\ nm' = Some(call([panic |-> TRUE, score |-> 0, nodes |-> 0]))
             /\ table' = table
    /\ UNCHANGED <<poisoned, ttArgs, ttLast, ttWriter, cx, hist>>
    /\ UNCHANGED <<concVars, engineVars>>

MateNext == \E depth \in RootDepths : MateCall(depth)

SpecMate == Init /\ [][MateNext]_vars

\* C23: no score of the search overflows i16: for every remaining depth the
\* root driver can pass to nega_max, the mate score CHECKMATE_SCORE - depth
\* is computed without overflow, stays at or above MIN_SCORE, and its
\* negation is an i16 too.
C23_MateScoreInRange ==
    (nm # None /\ nm.data.board = MatedBoard /\ nm.data.probe = None) =>
        /\ ~nm.data.res.panic
        /\ nm.data.res.score = CHECKMATE_SCORE - nm.data.depth
        /\ nm.data.res.score >= MIN_SCORE
        /\ -nm.data.res.score \in I16

\* C12: a nega_max node without legal moves whose side to move is in check
\* returns CHECKMATE_SCORE minus the remaining depth with 0 nodes, at every
\* remaining depth.
C12_MateScore ==
    (nm # None /\ new_legal(nm.data.board) = <<>> /\ is_check(nm.data.board))
        => nm.data.res = [panic |-> FALSE,
                          score |-> CHECKMATE_SCORE - nm.data.depth,
                          nodes |-> 0]

\* C13: nega_max returns score 0 with 0 nodes for a node that has legal
\* moves and whose hash occurs at least three times in the history passed,
\* at every remaining depth, 0 included, when the table holds no entry for
\* that hash.
C13_RepetitionIsDraw ==
    (/\ nm # None
     /\ new_legal(nm.data.board) # <<>>
     /\ Cardinality({i \in 1..Len(nm.data.position_history) :
                        nm.data.position_history[i]
                            = get_hash(nm.data.board)}) >= 3
     /\ nm.data.entry = "None")
        => nm.data.res = [panic |-> FALSE, score |-> 0, nodes |-> 0]

\* C13 happens: a call at remaining depth 0, where quiescence would start,
\* on a position that occurred three times, with a window its stand-pat
\* score exceeds
C13_RepeatedAtDepthZero ==
    /\ nm # None
    /\ nm.data.board = LoopBoard
    /\ nm.data.position_history # <<>>
    /\ nm.data.depth = 0
    /\ nm.data.beta = 5
    /\ nm.data.entry = "None"
    /\ nm.data.res.score = 0

\* the call recorded in c ran its node to the store at the end of nega_max
\* or at a terminal node: there was no entry to probe, the position was no
\* repetition and the remaining depth did not send it to quiescence
StoredByCall(c) ==
    /\ c.probe = None
    /\ ~c.res.panic
    /\ \/ new_legal(c.board) = <<>>
       \/ /\ c.depth >= 1
          /\ ~is_repetition(c.position_history, get_hash(c.board))

\* C27: the entry nega_max stores for a node is classified with the alpha
\* the frame had before its move loop: a node whose max_score lies strictly
\* between that alpha and beta is stored as Exact, and a node that ended in
\* a beta cutoff is stored as LowerBound.
C27_StoredBoundKind ==
    [][ IF nm' = None THEN TRUE
        ELSE LET c == nm'.data
                 stored == TT_get(table', FromNat(get_hash(c.board)))
             IN (/\ StoredByCall(c)
                 /\ new_legal(c.board) # <<>>
                 /\ stored.kind = "Some") =>
                    /\ (c.alpha < c.res.score /\ c.res.score < c.beta)
                           => stored.data.node_type = "Exact"
                    /\ c.res.score >= c.beta
                           => stored.data.node_type = "LowerBound"
      ]_vars

\* C28: the depth nega_max stores in an entry is the remaining search depth
\* the stored score was derived with, the quantity the probe compares with.
C28_StoredDepthIsRemaining ==
    [][ IF nm' = None THEN TRUE
        ELSE LET c == nm'.data
                 stored == TT_get(table', FromNat(get_hash(c.board)))
             IN (StoredByCall(c) /\ stored.kind = "Some") =>
                    stored.data.depth = c.depth
      ]_vars

\* C29: at a node with remaining depth d, an entry found for the node's
\* hash is used only if its depth is at least d. An Exact entry returns the
\* stored score with 0 nodes; a LowerBound entry raises alpha to
\* max(alpha, score), an UpperBound entry lowers beta to min(beta, score),
\* and if alpha >= beta afterwards the stored score is returned with 0
\* nodes; otherwise the node is searched with that window. An entry with a
\* depth below d changes neither the window nor the result.
C29_ProbeUse ==
    [][ IF nm' = None THEN TRUE
        ELSE LET c == nm'.data
                 found == TT_get(table, FromNat(get_hash(c.board)))
                 te == found.data
                 used == te.depth >= c.depth
                 alpha == IF used /\ te.node_type = "LowerBound"
                          THEN Max(c.alpha, te.score) ELSE c.alpha
                 beta == IF used /\ te.node_type = "UpperBound"
                         THEN Min(c.beta, te.score) ELSE c.beta
                 history == from_vec(c.position_history)
                 node == nega_max_node(table, history.arr, history.len,
                                       c.board, 1, c.depth, alpha, beta,
                                       task_must_stop(FALSE))
             IN found.kind = "Some" =>
                    IF used /\ (te.node_type = "Exact" \/ alpha >= beta)
                    THEN /\ c.res = [panic |-> FALSE, score |-> te.score,
                                     nodes |-> 0]
                         /\ table' = table
                    ELSE /\ c.res = [panic |-> node.panic,
                                     score |-> node.score,
                                     nodes |-> node.nodes]
                         /\ table' = node.table
      ]_vars

\* C29 happens: the probe found a LowerBound entry of sufficient depth that
\* raised alpha to beta, and the call returned the stored score with 0 nodes
C29_LowerBoundCutoff ==
    /\ nm # None
    /\ nm.data.probe.kind = "Some"
    /\ nm.data.probe.data.node_type = "LowerBound"
    /\ nm.data.probe.data.depth >= nm.data.depth
    /\ nm.data.alpha < nm.data.beta
    /\ Max(nm.data.alpha, nm.data.probe.data.score) >= nm.data.beta
    /\ nm.data.res = [panic |-> FALSE, score |-> nm.data.probe.data.score,
                      nodes |-> 0]

(***************************************************************************)
(* search/history.rs: one MoveHistory under push, pop and seen_times       *)
(***************************************************************************)

\* the hashes pushed; 0 is also what MoveHistory::new fills the array with
HistHashes == {0, 1, 2}

\* the longest history built
MaxPushes == 3

\* a pop that returns the top entry and leaves len as it is: what C26 rules
\* out
pop_keeps_len(arr, len) ==
    IF len = 0 THEN [ret |-> None, len |-> 0]
    ELSE [ret |-> Some(arr[len]), len |-> len]

\* MoveHistory::pop on a history of length len: what it returns and the
\* length it leaves
pop(arr, len) ==
    IF len = 0 THEN [ret |-> None, len |-> 0]
    ELSE [ret |-> Some(arr[len]), len |-> len - 1]

\* a MoveHistory: the written prefix of its array, its len, and as history
\* the hashes pushed and not yet popped and the last call with its result
History(arr, len, stack, op, arg, ret) ==
    Some([arr |-> arr, len |-> len, stack |-> stack,
          last |-> [op |-> op, arg |-> arg, ret |-> ret]])

\* MoveHistory::new()
History_new ==
    /\ hist' = History(<<>>, 0, <<>>, "new", 0, None)
    /\ UNCHANGED <<cx, nm, ttVars, concVars, engineVars>>

\* history.push(b_hash)
History_push(b_hash) ==
    /\ hist # None
    /\ hist.data.len < MaxPushes
    /\ hist' = History(push(hist.data.arr, hist.data.len, b_hash),
                       hist.data.len + 1, Append(hist.data.stack, b_hash),
                       "push", b_hash, None)
    /\ UNCHANGED <<cx, nm, ttVars, concVars, engineVars>>

\* history.pop()
History_pop ==
    /\ hist # None
    /\ LET r == pop(hist.data.arr, hist.data.len)
           stack == hist.data.stack
       IN hist' = History(hist.data.arr, r.len,
                          IF stack = <<>> THEN <<>>
                          ELSE SubSeq(stack, 1, Len(stack) - 1),
                          "pop", 0, r.ret)
    /\ UNCHANGED <<cx, nm, ttVars, concVars, engineVars>>

\* history.seen_times(hash)
History_seen_times(hash) ==
    /\ hist # None
    /\ hist' = History(hist.data.arr, hist.data.len, hist.data.stack,
                       "seen_times", hash, seen_times(hist.data.arr, hash))
    /\ UNCHANGED <<cx, nm, ttVars, concVars, engineVars>>

HistNext ==
    \/ History_new
    \/ \E b_hash \in HistHashes : History_push(b_hash)
    \/ History_pop
    \/ \E hash \in HistHashes : History_seen_times(hash)

SpecHist == Init /\ [][HistNext]_vars

\* C25: seen_times(h) is the number of occurrences of h among the hashes
\* currently on the stack, pushed and not yet popped, after any sequence of
\* push and pop.
C25_SeenTimesCountsStack ==
    (hist # None /\ hist.data.last.op = "seen_times") =>
        hist.data.last.ret =
            Cardinality({i \in 1..Len(hist.data.stack) :
                            hist.data.stack[i] = hist.data.last.arg})

\* C26: MoveHistory is a LIFO stack: pop returns the most recently pushed
\* hash not yet popped and decrements len by one; pop on an empty history
\* returns none and leaves len at 0; len is the number of hashes pushed and
\* not yet popped.
C26_PopIsLifo ==
    [][ IF hist = None \/ hist' = None THEN TRUE
        ELSE /\ hist'.data.len = Len(hist'.data.stack)
             /\ hist'.data.last.op = "pop" =>
                    IF hist.data.stack = <<>>
                    THEN /\ hist'.data.last.ret = None
                         /\ hist'.data.len = 0
                    ELSE /\ hist'.data.last.ret =
                                Some(hist.data.stack[Len(hist.data.stack)])
                         /\ hist'.data.len = hist.data.len - 1
      ]_vars

\* C26 happens: after three pushes and a pop, a second pop has just
\* returned the second hash pushed, with the first still on the stack
C26_PoppedAfterPushPop ==
    /\ hist # None
    /\ hist.data.last.op = "pop"
    /\ hist.data.last.ret = Some(1)
    /\ hist.data.arr = <<2, 1, 0>>
    /\ hist.data.len = 1

(***************************************************************************)
(* search/alpha_beta.rs:98-101 with search/context.rs:80-103: the          *)
(* MoveHistory handles of the frames on the search path                    *)
(***************************************************************************)

\* the deepest path followed below the root child
MaxPathLen == 3

\* the position histories a request carries
PathHistories == {<<>>, <<1>>, <<1, 2>>}

\* the hashes of the positions searched
PathHashes == {1, 2, 3}

\* search_core, handler.rs:276-285: the root child's context gets
\* MoveHistory::from_vec(&request.position_history); nega_max is entered on
\* the root child, whose hash is b_hash. lens holds the len of each frame's
\* handle, path the hash of each frame's position; all handles share arr.
PathStart(position_history, b_hash) ==
    /\ hist' = Some([arr |-> from_vec(position_history).arr,
                     lens |-> <<from_vec(position_history).len>>,
                     path |-> <<b_hash>>,
                     position_history |-> position_history,
                     entered |-> TRUE])
    /\ UNCHANGED <<cx, nm, ttVars, concVars, engineVars>>

\* alpha_beta.rs:98-100: apply_move_new clones the frame's handle for the
\* child (context.rs:95), THEN the frame pushes the child's hash through
\* its own handle, and the child frame is entered
PathDescend(b_hash) ==
    /\ hist # None
    /\ Len(hist.data.lens) < MaxPathLen
    /\ LET top == Len(hist.data.lens)
           len == hist.data.lens[top]
       IN hist' = Some([hist.data EXCEPT
              !.arr = push(hist.data.arr, len, b_hash),
              !.lens = Append([hist.data.lens EXCEPT ![top] = len + 1], len),
              !.path = Append(hist.data.path, b_hash),
              !.entered = TRUE])
    /\ UNCHANGED <<cx, nm, ttVars, concVars, engineVars>>

\* alpha_beta.rs:100-101: the child frame returns and the frame pops
PathAscend ==
    /\ hist # None
    /\ Len(hist.data.lens) > 1
    /\ LET top == Len(hist.data.lens) - 1
       IN hist' = Some([hist.data EXCEPT
              !.lens = [k \in 1..top |->
                           IF k = top
                           THEN pop(hist.data.arr, hist.data.lens[k]).len
                           ELSE hist.data.lens[k]],
              !.path = SubSeq(hist.data.path, 1, top),
              !.entered = FALSE])
    /\ UNCHANGED <<cx, nm, ttVars, concVars, engineVars>>

PathNext ==
    \/ \E position_history \in PathHistories, b_hash \in PathHashes :
           PathStart(position_history, b_hash)
    \/ \E b_hash \in PathHashes : PathDescend(b_hash)
    \/ PathAscend

SpecPath == Init /\ [][PathNext]_vars

\* C30: at entry to every frame, the live history of the frame's handle
\* (the first len entries of the array) is the request's position_history
\* followed, in order, by the hashes the frames above it on the search path
\* pushed: those of the positions below the root child, down to the
\* frame's own, pushed by its parent.
C30_LiveHistoryIsPath ==
    (hist # None /\ hist.data.entered) =>
        LET top == Len(hist.data.lens)
        IN SubSeq(hist.data.arr, 1, hist.data.lens[top])
               = hist.data.position_history
                     \o SubSeq(hist.data.path, 2, top)

(***************************************************************************)
(* search/history.rs:5-31: the fixed array of MAX_PLY hashes under the     *)
(* position histories the controller builds and the pushes of a search     *)
(***************************************************************************)

\* the nesting of nega_max frames followed over the array
MaxFrames == 3

\* Engine::handle_position, engine.rs:125-130: one hash for the position
\* and one more for every move of the command
PositionLengths == 1..(MAX_PLY + 2)

position_hashes(n) == [i \in 1..n |-> 1 + (i % 2)]

\* MoveHistory::new, history.rs:12-17
MoveHistory_new == [moves |-> [i \in 1..MAX_PLY |-> 0], len |-> 0]

\* MoveHistory::push, history.rs:28-31: the index self.len is checked
\* against the array's length
MoveHistory_push(h, b_hash) ==
    IF h = Panic \/ h.len >= MAX_PLY THEN Panic
    ELSE [moves |-> [h.moves EXCEPT ![h.len + 1] = b_hash], len |-> h.len + 1]

RECURSIVE from_vec_loop(_, _, _)
from_vec_loop(h, hashes, i) ==
    IF i > Len(hashes) \/ h = Panic THEN h
    ELSE from_vec_loop(MoveHistory_push(h, hashes[i]), hashes, i + 1)

\* MoveHistory::from_vec, history.rs:19-25
MoveHistory_from_vec(hashes) == from_vec_loop(MoveHistory_new, hashes, 1)

Frames(arr, lens, op, n) ==
    [moves |-> arr, lens |-> lens, op |-> op, n |-> n]

\* Search::search_core, handler.rs:276: the history of the root frame
CapStart(n) ==
    /\ hist = None
    /\ LET h == MoveHistory_from_vec(position_hashes(n))
       IN  hist' = IF h = Panic
                   THEN Frames(MoveHistory_new.moves, <<>>, "from_vec panicked", n)
                   ELSE Frames(h.moves, <<h.len>>, "from_vec", n)
    /\ UNCHANGED <<cx, nm, ttVars, concVars, engineVars>>

\* nega_max, alpha_beta.rs:95-99 (quiescence_search, 154-156): the child's
\* handle is cloned in apply_move_new, then the frame pushes the child's hash
CapDescend(b_hash) ==
    /\ hist # None
    /\ hist.op \notin {"from_vec panicked", "push panicked"}
    /\ Len(hist.lens) < MaxFrames
    /\ LET k == Len(hist.lens)
           top == hist.lens[k]
           h == MoveHistory_push([moves |-> hist.moves, len |-> top], b_hash)
       IN  hist' = IF h = Panic
                   THEN Frames(hist.moves, hist.lens, "push panicked", hist.n)
                   ELSE Frames(h.moves,
                               Append([hist.lens EXCEPT ![k] = h.len], top),
                               "push", hist.n)
    /\ UNCHANGED <<cx, nm, ttVars, concVars, engineVars>>

\* nega_max, alpha_beta.rs:100-101: the child returned, the frame pops
CapAscend ==
    /\ hist # None
    /\ hist.op \notin {"from_vec panicked", "push panicked"}
    /\ Len(hist.lens) > 1
    /\ LET k == Len(hist.lens) - 1
           up == SubSeq(hist.lens, 1, k)
       IN  hist' = Frames(hist.moves,
                          [up EXCEPT ![k] = pop(hist.moves, up[k]).len],
                          "pop", hist.n)
    /\ UNCHANGED <<cx, nm, ttVars, concVars, engineVars>>

CapNext ==
    \/ \E n \in PositionLengths : CapStart(n)
    \/ \E b_hash \in {1, 2} : CapDescend(b_hash)
    \/ CapAscend

SpecCap == Init /\ [][CapNext]_vars

\* C37: MoveHistory never holds more than MAX_PLY hashes, and a search
\* started with a position history of any length the controller can build
\* runs without an out-of-bounds failure in from_vec or in the pushes of
\* the recursion.
C37_NoOutOfBounds ==
    hist # None =>
        /\ \A k \in 1..Len(hist.lens) : hist.lens[k] <= MAX_PLY
        /\ hist.op \notin {"from_vec panicked", "push panicked"}

(***************************************************************************)
(* search/alpha_beta.rs:42-175: the frames of nega_max and                 *)
(* quiescence_search, each with its own MoveHistory handle, and the paths  *)
(* on which a frame returns                                                *)
(***************************************************************************)

\* the moves a frame descends into
MaxMoves == 2

FrameLengths == {1, 2, MAX_PLY - 1, MAX_PLY}

\* a frame: the function, the length of its handle at entry and now, the
\* pushes and pops it made, and where it stands
Frame(fn, entry, len, pushes, pops, pc) ==
    [fn |-> fn, entry |-> entry, len |-> len, pushes |-> pushes,
     pops |-> pops, pc |-> pc]

Stack(arr, frames, last, op) ==
    [moves |-> arr, frames |-> frames, last |-> last, op |-> op]

\* the returns before the move loop: alpha_beta.rs:46-59 (TT hit), 65-80
\* (no legal move), 83-85 (repetition); 139-141 (stand-pat), 147-149
EarlyPaths(fn) ==
    IF fn = "nega_max" THEN {"tt_hit", "terminal", "repetition"}
    ELSE {"stand_pat", "repetition"}

\* the returns of the move loop: alpha_beta.rs:106-117 (cutoff), 119-121
\* (cancellation), 124-132 (end); 159-161 (cutoff), 169 (end)
LoopPaths(f) ==
    {"normal_end"}
        \cup (IF f.pushes >= 1 THEN {"beta_cutoff"} ELSE {})
        \cup (IF f.pushes >= 1 /\ f.fn = "nega_max" THEN {"cancellation"}
              ELSE {})

\* alpha_beta.rs:101, 157 with the pop disabled
history_pop_skipped(arr, f) ==
    Frame(f.fn, f.entry, f.len, f.pushes, f.pops + 1, "loop")

\* alpha_beta.rs:101, 157: ctx.history.pop() once the child has returned
history_pop(arr, f) ==
    Frame(f.fn, f.entry, pop(arr, f.len).len, f.pushes, f.pops + 1, "loop")

\* Search::search_core, handler.rs:276-285: the root frame of nega_max
FrameStart(n) ==
    /\ hist = None
    /\ LET h == MoveHistory_from_vec(position_hashes(n))
       IN  hist' = IF h = Panic
                   THEN Stack(MoveHistory_new.moves, <<>>, None, "unwound")
                   ELSE Stack(h.moves,
                              <<Frame("nega_max", h.len, h.len, 0, 0, "enter")>>,
                              None, "call")
    /\ UNCHANGED <<cx, nm, ttVars, concVars, engineVars>>

\* alpha_beta.rs:88-90: depth 0, ctx moves into quiescence_search
FrameQuiesce ==
    /\ hist # None /\ hist.frames # <<>>
    /\ LET k == Len(hist.frames)
           f == hist.frames[k]
       IN  /\ f.fn = "nega_max" /\ f.pc = "enter"
           /\ hist' = Stack(hist.moves,
                            [hist.frames EXCEPT ![k] =
                                Frame("quiescence_search", f.len, f.len, 0, 0,
                                      "enter")],
                            hist.last, "quiesce")
    /\ UNCHANGED <<cx, nm, ttVars, concVars, engineVars>>

\* alpha_beta.rs:62-94, 136-152: none of the early returns is taken
FrameLoop ==
    /\ hist # None /\ hist.frames # <<>>
    /\ LET k == Len(hist.frames)
           f == hist.frames[k]
       IN  /\ f.pc = "enter"
           /\ hist' = Stack(hist.moves,
                            [hist.frames EXCEPT ![k] =
                                Frame(f.fn, f.entry, f.len, f.pushes, f.pops,
                                      "loop")],
                            hist.last, "loop")
    /\ UNCHANGED <<cx, nm, ttVars, concVars, engineVars>>

\* alpha_beta.rs:95-100, 154-156: apply_move_new clones the handle for the
\* child, the frame pushes the child's hash and calls
FrameDescend(b_hash) ==
    /\ hist # None /\ hist.frames # <<>>
    /\ LET k == Len(hist.frames)
           f == hist.frames[k]
           h == MoveHistory_push([moves |-> hist.moves, len |-> f.len], b_hash)
           fn == IF f.fn = "nega_max" THEN "nega_max" ELSE "quiescence_search"
       IN  /\ f.pc = "loop"
           /\ f.pushes < MaxMoves
           /\ k < MaxFrames
           /\ hist' =
                IF h = Panic
                THEN Stack(hist.moves, <<>>, hist.last, "unwound")
                ELSE Stack(h.moves,
                           Append([hist.frames EXCEPT ![k] =
                                       Frame(f.fn, f.entry, h.len, f.pushes + 1,
                                             f.pops, "child")],
                                  Frame(fn, f.len, f.len, 0, 0, "enter")),
                           hist.last, "push")
    /\ UNCHANGED <<cx, nm, ttVars, concVars, engineVars>>

\* a return of the running frame, and in the caller the pop that follows
\* the call (alpha_beta.rs:100-101, 156-157)
FrameReturn(path) ==
    /\ hist # None /\ hist.frames # <<>>
    /\ LET k == Len(hist.frames)
           f == hist.frames[k]
           up == SubSeq(hist.frames, 1, k - 1)
           ret == [path |-> path, fn |-> f.fn, entry |-> f.entry,
                   len |-> f.len, pushes |-> f.pushes, pops |-> f.pops]
       IN  /\ \/ f.pc = "enter" /\ path \in EarlyPaths(f.fn)
              \/ f.pc = "loop" /\ path \in LoopPaths(f)
           /\ hist' = Stack(hist.moves,
                            IF k = 1 THEN <<>>
                            ELSE [up EXCEPT ![k - 1] =
                                      history_pop(hist.moves, up[k - 1])],
                            Some(ret), "return")
    /\ UNCHANGED <<cx, nm, ttVars, concVars, engineVars>>

ReturnPaths ==
    {"tt_hit", "terminal", "repetition", "stand_pat", "normal_end",
     "beta_cutoff", "cancellation"}

FrameNext ==
    \/ \E n \in FrameLengths : FrameStart(n)
    \/ FrameQuiesce
    \/ FrameLoop
    \/ \E b_hash \in {1, 2} : FrameDescend(b_hash)
    \/ \E path \in ReturnPaths : FrameReturn(path)

SpecFrames == Init /\ [][FrameNext]_vars

\* C31: on every return path of nega_max and quiescence_search the frame's
\* history has the length it had at entry and every push of the frame is
\* matched by exactly one pop; while a child runs, the frame is one push
\* ahead.
C31_PushPopBalanced ==
    hist # None =>
        /\ hist.last # None =>
               /\ hist.last.data.len = hist.last.data.entry
               /\ hist.last.data.pushes = hist.last.data.pops
        /\ \A k \in 1..Len(hist.frames) :
               LET f == hist.frames[k]
               IN  IF f.pc = "child"
                   THEN f.len = f.entry + 1 /\ f.pushes = f.pops + 1
                   ELSE f.len = f.entry /\ f.pushes = f.pops

\* a frame two calls deep returned by a beta cutoff after two pushes
C31_CutoffAfterPushes ==
    /\ hist # None
    /\ hist.last # None
    /\ hist.last.data.path = "beta_cutoff"
    /\ hist.last.data.pushes = 2
    /\ Len(hist.frames) = 1
    /\ hist.frames[1].pc = "loop"

(***************************************************************************)
(* search/alpha_beta.rs:93-122: the node counter of one nega_max frame and *)
(* the poll of task_must_stop it gates                                     *)
(***************************************************************************)

\* the moves of the frame's loop
MaxLoopMoves == 4

\* child.nodes of a returning child: a leaf, a subtree of 2047 nodes, and
\* a child that itself stopped at its own poll with 2048 nodes counted
ChildNodes == {0, CHECK_TERMINATION, CHECK_TERMINATION + 1}

\* the frame: ctx.timeout.is_some(), nodes, the nodes counted since
\* task_must_stop became true, the moves explored, where it stands
PollFrame(has_timeout, nodes, since, explored, pc) ==
    [has_timeout |-> has_timeout, nodes |-> nodes, since |-> since,
     explored |-> explored, pc |-> pc]

\* alpha_beta.rs:93: let mut nodes = 0, in front of the loop
PollEnter(has_timeout) ==
    /\ nm = None
    /\ nm' = PollFrame(has_timeout, 0, 0, 0, "loop")
    /\ UNCHANGED <<cx, hist, ttVars, concVars, engineVars>>

\* Engine::handle_stop, engine.rs:156: the flag is stored
PollSignal ==
    /\ nm # None
    /\ ~search_sig
    /\ search_sig' = TRUE
    /\ UNCHANGED <<cpc, quit, board, moves, positions, out, err, taken>>
    /\ UNCHANGED <<workerVars, cmdq, respq, seen, mark>>
    /\ UNCHANGED <<ttVars, concVars, searchVars>>

\* util.rs:23-28: Instant::now() reaches the deadline
PollDeadline ==
    /\ nm # None
    /\ nm.has_timeout
    /\ ~timeup
    /\ timeup' = TRUE
    /\ UNCHANGED <<wpc, wreq, wd, wres, wtasks, owed, cmdq, respq, seen, mark>>
    /\ UNCHANGED <<ctrlVars, ttVars, concVars, searchVars>>

\* alpha_beta.rs:95-121 without a cutoff: the child returns, its nodes are
\* added, and task_must_stop is asked only when nodes & 0x7FF == 0
PollChild(child_nodes) ==
    /\ nm # None
    /\ nm.pc = "loop"
    /\ nm.explored < MaxLoopMoves
    /\ LET nodes == nm.nodes + child_nodes + 1
           since == IF task_must_stop(nm.has_timeout)
                    THEN nm.since + child_nodes + 1 ELSE 0
           polled == nodes % (CHECK_TERMINATION + 1) = 0
       IN  nm' = PollFrame(nm.has_timeout, nodes, since, nm.explored + 1,
                           IF polled /\ task_must_stop(nm.has_timeout)
                           THEN "stopped" ELSE "loop")
    /\ UNCHANGED <<cx, hist, ttVars, concVars, engineVars>>

\* alpha_beta.rs:106-117, 124-132: a cutoff, or the moves are exhausted
PollEnd ==
    /\ nm # None
    /\ nm.pc = "loop"
    /\ nm' = PollFrame(nm.has_timeout, nm.nodes, nm.since, nm.explored,
                       "returned")
    /\ UNCHANGED <<cx, hist, ttVars, concVars, engineVars>>

PollNext ==
    \/ \E has_timeout \in BOOLEAN : PollEnter(has_timeout)
    \/ PollSignal
    \/ PollDeadline
    \/ \E child_nodes \in ChildNodes : PollChild(child_nodes)
    \/ PollEnd

SpecPoll == Init /\ [][PollNext]_vars

\* C33: once the flag is set or the deadline has passed, a nega_max frame
\* explores no further move after N = 2048 more nodes were counted in it.
C33_StopsWithinN ==
    [][ (/\ nm # None
         /\ task_must_stop(nm.has_timeout)
         /\ nm'.explored > nm.explored)
            => nm.since < CHECK_TERMINATION + 1 ]_vars

(***************************************************************************)
(* search/handler.rs:197-268: the depths search_iterative runs through, up *)
(* to the bound Search::search calls it with                               *)
(***************************************************************************)

\* Search::search, handler.rs:203-206: a Time or Infinite request enters
\* search_iterative(request, timeout, u8::MAX), whose loop starts at d = 1
iterative_enter(ctrl) ==
    /\ wpc = "recv"
    /\ wpc' = "iter"
    /\ wreq' = SearchRequest(ctrl, StartBoard, <<>>)
    /\ wd' = 1
    /\ timeup' = FALSE
    /\ UNCHANGED <<wres, wtasks, owed, cmdq, respq, seen, mark>>
    /\ UNCHANGED <<ctrlVars, ttVars, concVars, searchVars>>

\* handler.rs:238-264: the fan-out of depth d is done, task_must_stop is
\* false at line 250, and the range 1..depth has a next d
iterative_next ==
    /\ wpc = "iter"
    /\ ~task_must_stop(wreq.ctrl.kind = "Time")
    /\ wd + 1 < U8_MAX
    /\ wd' = wd + 1
    /\ UNCHANGED <<wpc, wreq, wres, wtasks, timeup, owed, cmdq, respq, seen,
                   mark>>
    /\ UNCHANGED <<ctrlVars, ttVars, concVars, searchVars>>

\* handler.rs:250-252, 267: task_must_stop is true after the fan-out, or
\* the range is exhausted: search_iterative returns
iterative_return ==
    /\ wpc = "iter"
    /\ task_must_stop(wreq.ctrl.kind = "Time") \/ wd + 1 >= U8_MAX
    /\ wpc' = "recv"
    /\ wreq' = NoRequest
    /\ wd' = 0
    /\ timeup' = FALSE
    /\ UNCHANGED <<wres, wtasks, owed, cmdq, respq, seen, mark>>
    /\ UNCHANGED <<ctrlVars, ttVars, concVars, searchVars>>

IterNext ==
    \/ \E ctrl \in {Time, Infinite} : iterative_enter(ctrl)
    \/ DeadlinePasses
    \/ iterative_next
    \/ iterative_return

SpecIter == Init /\ [][IterNext]_vars

\* C36: iterative deepening runs the depths 1, 2, 3, ... in increasing
\* order, one iteration per depth, and never starts an iteration deeper
\* than MAX_PLY.
C36_IterationsUpToMaxPly ==
    [][ wpc' = "iter" =>
            /\ wd' \in 1..MAX_PLY
            /\ wpc = "recv" => wd' = 1
            /\ (wpc = "iter" /\ wd' # wd) => wd' = wd + 1
      ]_vars

(***************************************************************************)
(* Claims about the controller and the search worker                       *)
(***************************************************************************)
\* C1: for every SearchRequest the worker receives it sends exactly one
\* SearchResponse: whenever the worker is not inside Search::search, no
\* received request is left unanswered.
C1_OneResponsePerRequest == (~Searching) => owed = 0

\* C2: for every SearchResponse the controller takes it prints exactly one
\* bestmove line, carrying the response's best move, or the null move 0000
\* (written 0 here) when the response has none.
C2_OneBestmoveLine ==
    taken.ctrl # "None" =>
        LET lines == {i \in 1..Len(out) : out[i].line = "bestmove"}
        IN /\ Cardinality(lines) = 1
           /\ \A i \in lines :
                  out[i].m = IF taken.msg.best_move.kind = "Some"
                             THEN taken.msg.best_move.data ELSE 0

\* the responses that exist: in the channel or just taken by the controller
Answers == {respq[i] : i \in 1..Len(respq)} \cup {taken}

\* C3: the response of a time-bounded or infinite search is that of an
\* iteration that ran to completion: a fan-out in which a root search was
\* cut short by cancellation never contributes to the response.
C3_NoTruncatedIteration ==
    \A a \in Answers : a.ctrl \in {"Time", "Infinite"} => a.cut = {}

\* C4: handling stop, the controller sets the flag before it waits, takes
\* the worker's next response and prints it with the flag still set, clears
\* the flag only after that, and the flag is false whenever the controller
\* is in its dispatch loop.
C4_StopProtocol ==
    [][ /\ (~search_sig /\ search_sig') => (cpc = "loop" /\ cpc' = "stop_recv")
        /\ (cpc = "stop_recv" /\ cpc' = "stop_clear") =>
               /\ search_sig /\ search_sig'
               /\ respq # <<>>
               /\ respq' = Tail(respq)
               /\ taken' = Head(respq)
               /\ out' = print_search_response(Head(respq).msg)
        /\ (search_sig /\ ~search_sig') => (cpc = "stop_clear" /\ cpc' = "loop")
        /\ (cpc = "stop_recv" /\ cpc' = "loop") => FALSE
        /\ (cpc = "loop" => ~search_sig)
        /\ (cpc' = "loop" => ~search_sig') ]_vars

\* C4 happens: a stop took the response of an infinite search that was cut
\* after its first iteration and printed its bestmove, the flag still set
C4_StoppedSearch ==
    /\ cpc = "stop_clear"
    /\ search_sig
    /\ taken.ctrl = "Infinite"
    /\ taken.msg.depth = 1
    /\ Len(out) = 2

\* C5: a stop received when no search is in flight does not block the
\* controller: when it is in handle_stop with nothing in flight and the
\* worker alive, it eventually is back in its dispatch loop, the flag false.
C5_IdleStopReturns ==
    (cpc = "stop_recv" /\ InFlight = 0 /\ ~WorkerDead)
        ~> (cpc = "loop" /\ ~search_sig)

\* C6: after quit is received the engine eventually shuts down: the worker
\* has left its loop and SearchHandler::quit has returned, whatever the
\* worker was doing when quit arrived.
C6_QuitShutsDown == (seen # "none") ~> (cpc = "done" /\ WorkerDead)

\* C6 happens: quit arrived while an infinite search was running, and the
\* worker has received Quit and been joined
C6_QuitDuringInfinite == cpc = "done" /\ seen = "Infinite" /\ wpc = "exited"

\* a step of the controller handling some go command
GoStep ==
    \E depth \in GoDepths, movetime \in GoMovetimes, infinite \in BOOLEAN :
        handle_go(depth, movetime, infinite)

\* a step that sends a SearchRequest on the command channel
Dispatches ==
    /\ Len(cmdq') = Len(cmdq) + 1
    /\ cmdq'[Len(cmdq')].cmd = "Search"

\* C14: a go received when no position is loaded dispatches no request and
\* changes nothing in the controller: board, move list, hash history, flag.
C14_GoWithoutPosition ==
    [][ (GoStep /\ board = None) =>
            UNCHANGED <<board, moves, positions, search_sig, cmdq, cpc, quit>>
      ]_vars

\* C14 happens: a go was just rejected for want of a position while a
\* request dispatched earlier is still being searched
C14_GoRejected ==
    /\ err = <<"Error: No board position set.">>
    /\ board = None
    /\ Searching

\* C15: a go received while a position is loaded dispatches exactly one
\* SearchRequest, for every combination of depth, movetime and infinite.
C15_GoDispatchesOne == [][ (GoStep /\ board # None) => Dispatches ]_vars

\* C16: a go that dispatches a request clears the stored position, the move
\* list and the hash history, and a go that finds them cleared dispatches
\* nothing.
C16_GoClearsPosition ==
    [][ /\ (GoStep /\ Dispatches) =>
               (board' = None /\ moves' = <<>> /\ positions' = <<>>)
        /\ (GoStep /\ board = None) => cmdq' = cmdq
      ]_vars

\* C16 happens: a request was dispatched and still waits in the channel, and
\* the go that followed it was rejected for want of a position
C16_SecondGoRejected ==
    /\ err = <<"Error: No board position set.">>
    /\ Queued # {}
    /\ board = None /\ moves = <<>> /\ positions = <<>>

\* C17: every time the controller dispatches a SearchRequest, the shared
\* cancellation flag is false.
C17_FlagFalseAtDispatch ==
    [][ Dispatches => (~search_sig /\ ~search_sig') ]_vars

\* C17 happens: a request has been dispatched behind a running search and
\* the flag is false
C17_DispatchedBehindSearch ==
    /\ Queued # {}
    /\ Searching
    /\ ~search_sig
    /\ cpc = "loop"

\* C18: once the stop flag has been set during an iterative search, the
\* worker publishes no iteration and sends no SearchResponse of a depth
\* greater than the deepest iteration published when the flag was set.
C18_NothingDeeperAfterStop ==
    [][ (mark # None /\ wpc = "iter") =>
            /\ wres'.msg.depth <= mark.data
            /\ Len(respq') > Len(respq) =>
                   respq'[Len(respq')].msg.depth <= mark.data
      ]_vars

\* the board a position command starts from, None for an invalid FEN
StartOf(fen) ==
    IF fen.kind = "Some" THEN Board_from_str(fen.data) ELSE Some(StartBoard)

\* C19: after a successful position command with n moves the hash history
\* has n+1 entries, positions[i] (counted from 0) is the hash of the position
\* after the first i moves, the last one that of the stored board, and
\* nothing of a previous history is left.
C19_PositionsAreHashes ==
    [][ \A p \in PositionInputs :
            (handle_position(p.fen, p.moves) /\ StartOf(p.fen) # None) =>
                /\ Len(positions') = Len(p.moves) + 1
                /\ \A i \in 0..Len(p.moves) :
                       positions'[i + 1] =
                           get_hash(BoardAfter(StartOf(p.fen).data,
                                               SubSeq(p.moves, 1, i)))
                /\ board' = Some(BoardAfter(StartOf(p.fen).data, p.moves))
                /\ positions'[Len(positions')] = get_hash(board'.data)
                /\ moves' = p.moves
      ]_vars

\* C19 happens: a position command with two moves has been handled
C19_TwoMovesLoaded ==
    /\ moves = <<1, 1>>
    /\ Len(positions) = 3
    /\ board = Some(MatedBoard)

\* C20: a position command whose FEN is invalid leaves the board, the move
\* list and the hash history as they were.
C20_InvalidFenChangesNothing ==
    [][ \A p \in PositionInputs :
            (handle_position(p.fen, p.moves) /\ StartOf(p.fen) = None) =>
                UNCHANGED <<board, moves, positions>>
      ]_vars

\* C20 happens: an invalid FEN was just rejected while a position with two
\* moves is loaded
C20_InvalidFenRejected ==
    /\ err = <<"Error: InvalidFen">>
    /\ board = Some(MatedBoard)
    /\ moves = <<1, 1>>

\* C21: the go that follows a position command with an invalid FEN is
\* rejected: it dispatches no SearchRequest, whatever the controller held
\* before the failed position command (err is the controller's latest
\* report, so the failed position command is the command before this go).
C21_GoAfterInvalidFen ==
    [][ (GoStep /\ err = <<"Error: InvalidFen">>) => ~Dispatches ]_vars

\* C22: in every SearchResponse with at least one root move, best_move is a
\* root move whose score is maximal among all_moves, all_moves lists the
\* root moves in the order of the legal-move enumeration, and among moves
\* of equal maximal score the one chosen is fixed by that order (the last
\* of them), whatever the order in which the root tasks finished.
C22_BestMoveIsMaximal ==
    \A a \in Answers :
        LET am == a.msg.all_moves
        IN am # <<>> =>
            /\ \E b \in {StartBoard, MidBoard, FarBoard} :
                   [i \in 1..Len(am) |-> am[i].m] = new_legal(b)
            /\ a.msg.best_move.kind = "Some"
            /\ \E i \in 1..Len(am) :
                   /\ am[i].m = a.msg.best_move.data
                   /\ \A j \in 1..Len(am) : am[j].score <= am[i].score
                   /\ \A j \in (i + 1)..Len(am) : am[j].score < am[i].score

\* C22 happens: a response of an undisturbed fan-out over two root moves of
\* equal score is in the channel, and the second is the best move
C22_TieBrokenByOrder ==
    \E i \in 1..Len(respq) :
        LET a == respq[i]
        IN /\ Len(a.msg.all_moves) = 2
           /\ a.msg.all_moves[1].score = a.msg.all_moves[2].score
           /\ a.cut = {}
           /\ a.msg.best_move = Some(a.msg.all_moves[2].m)

\* C38: a time-bounded or infinite search of a position with no legal move
\* ends with a response and the worker does not fail: while and after such
\* a request is searched the worker thread has not panicked.
C38_WorkerSurvivesNoMoves ==
    (wreq.ctrl.kind \in {"Time", "Infinite"} /\ new_legal(wreq.board) = <<>>)
        => wpc # "panicked"

\* C34: when the stop flag is set during a fixed-depth search, partial root
\* work is dropped: the response of a fixed-depth search reports nothing
\* obtained from a root-move search that was cut short, neither in
\* all_moves nor as best move.
C34_NoPartialRootWork ==
    \A a \in Answers : a.ctrl = "Depth" => a.cut = {}

\* C35: a stop cancels only the search executing when it is handled: a
\* request that was queued behind a search which has answered is taken up
\* by the worker with the cancellation flag unset.
C35_QueuedRequestUnflagged ==
    [][ (wpc = "recv" /\ wpc' \in {"depth", "iter"} /\ respq # <<>>)
            => ~search_sig ]_vars

(***************************************************************************)
(* Claims about the transposition table                                    *)
(***************************************************************************)
\* the bound-kind bits (44..47) of a packed entry, as a u64
TypeBits(value) == Shr(BitAnd(value, TYPE_MASK), TYPE_SHIFT)

\* C7: a get(h) called right after set(h, depth, score, move, original_alpha,
\* beta) returns exactly that depth, score and move and the bound kind the
\* set derived, for every score of the i16 range, negative ones included.
C7_SetGetRoundTrip ==
    (ttLast.op = "get" /\ ttLast.arg # 0)
        => ttLast.res = Some(DataOf(ttArgs[ttLast.arg]))

\* C8: get never returns data stored under a different hash: when the slot
\* was last written by set(h, ..), get(h') for another hash h' of the slot
\* returns none; and once set(h', ..) has replaced an entry written under h,
\* get(h') returns the new data.
C8_NoFalseHitAndReplace ==
    ttLast.op = "get" =>
        LET w == ttWriter[TT_index(ttLast.hash)]
        IN w.written =>
            /\ (w.hash # ttLast.hash => ttLast.res = None)
            /\ (w.hash = ttLast.hash /\ w.over.written /\ w.over.hash # w.hash
                    => ttLast.res = Some(DataOf(ttArgs[w.arg])))

\* C9: the bound kind set stores in the entry is UpperBound if
\* score <= original_alpha, else LowerBound if score >= beta, else Exact,
\* for every score and window.
C9_StoredBoundKind ==
    \A i \in Slots :
        ttWriter[i].written =>
            LET a == ttArgs[ttWriter[i].arg]
            IN TypeBits(table[i].value) =
                   FromNat(to_byte(IF a.score <= a.original_alpha THEN "UpperBound"
                                   ELSE IF a.score >= a.beta THEN "LowerBound"
                                   ELSE "Exact"))

\* C10: under any interleaving of get and set calls of several threads, a
\* get(h) returns none or the complete data of one single set(h, ..) call.
C10_GetReturnsOneSet ==
    \A t \in Threads :
        thr[t].res.kind = "Some" =>
            /\ thr[t].src.written
            /\ thr[t].src.hash = thr[t].hash
            /\ thr[t].res.data = DataOf(ttArgs[thr[t].src.arg])

\* C39: get(h) returns data only if a set(h, ..) was performed earlier: on
\* a table, or a slot, no set has written yet, get(h) returns none for every
\* hash h, 0 and all-ones included, and the slot index hash & (size - 1) is
\* below size.
C39_GetOnlyAfterSet ==
    /\ \A h \in TTHashes : TT_index(h) \in 0..(TTSize - 1)
    /\ (ttLast.op = "get" /\ ttLast.res.kind = "Some") =>
           /\ ttWriter[TT_index(ttLast.hash)].written
           /\ ttWriter[TT_index(ttLast.hash)].hash = ttLast.hash

\* the part of C8 that does not depend on decoding: a get whose hash differs
\* from the hash the slot was last written under returns none
NoHitAcrossHashes ==
    ttLast.op = "get" =>
        LET w == ttWriter[TT_index(ttLast.hash)]
        IN (w.written /\ w.hash # ttLast.hash) => ttLast.res = None

\* the part of C10 that is the Mutex's doing: the hash and the value of an
\* entry a get reads come from the same set call
NoTornRead ==
    \A t \in Threads :
        (thr[t].res.kind = "Some" /\ thr[t].src.written) =>
            /\ thr[t].src.hash = thr[t].hash
            /\ thr[t].res.data = DataOf(ttArgs[thr[t].src.arg])

\* no thread works on an entry without holding its slot's Mutex
WorksUnderLock ==
    \A t \in Threads :
        thr[t].pc \in {"in", "value"} => lock[TT_index(thr[t].hash)] = t

====
